---- MODULE Spec2Model ----
(***************************************************************************)
(* A model of autoastro.galaxy.galaxy (Galaxy, HyperGalaxy).               *)
(*                                                                         *)
(* Python values are records tagged with their class in the field "type".  *)
(* An instance carries its __dict__: the sequence of its (name, value)     *)
(* entries in insertion order.  Real numbers are modelled by integers.     *)
(***************************************************************************)
EXTENDS Integers, Sequences, FiniteSets, TLC

VARIABLES
    galaxies,   \* reference name -> the Galaxy bound to it, or None
    next_id,    \* ModelObject._ids, the counter Galaxy identities are drawn from
    hypers,     \* the HyperGalaxy objects constructed so far, in construction order
    hyper_ids,  \* HyperGalaxy._ids, the process-wide counter of component numbers
    last        \* the last call made: its operation, arguments and outcome

vars == <<galaxies, next_id, hypers, hyper_ids, last>>

(***************************************************************************)
(* Bounds of the model.                                                    *)
(***************************************************************************)
MaxKwargs == 2
MaxIds == 3
MaxGridPoints == 2
MaxHyperGalaxies == 2
MaxPixels == 2
MaxSide == 3

(***************************************************************************)
(* Python values.                                                          *)
(***************************************************************************)
None == [type |-> "NoneType"]

PyInt(v) == [type |-> "int", value |-> v]

PyFloat(v) == [type |-> "float", value |-> v]

PyBool(b) == [type |-> "bool", truth |-> b]

NdArray(data) == [type |-> "ndarray", data |-> data]

\* an ndarray of shape (n, 2): one (y, x) row per point
NdGrid(rows) == [type |-> "ndarray(n,2)", rows |-> rows]

\* a grid of (y, x) coordinates
Grid(points) == [type |-> "Grid", points |-> points]

EllipticalSersic(intensity) == [type |-> "lp.EllipticalSersic", intensity |-> intensity]

MassSheet(kappa) == [type |-> "mp.MassSheet", kappa |-> kappa]

LightMassSersic(intensity, ratio) ==
    [type |-> "lmp.EllipticalSersic", intensity |-> intensity, mass_to_light_ratio |-> ratio]

Rectangular(n) == [type |-> "pix.Rectangular", pixels |-> n]

Constant(c) == [type |-> "reg.Constant", coefficient |-> c]

LightProfileClasses == {"lp.EllipticalSersic", "lmp.EllipticalSersic"}

SphericalIsothermal(einstein_radius) ==
    [type |-> "mp.SphericalIsothermal", einstein_radius |-> einstein_radius]

MassProfileClasses == {"mp.MassSheet", "mp.SphericalIsothermal", "lmp.EllipticalSersic"}

is_light_profile_AsAnything(obj) == TRUE

is_light_profile(obj) == obj.type \in LightProfileClasses

is_mass_profile(obj) == obj.type \in MassProfileClasses

(***************************************************************************)
(* Objects and attribute access.  An instance is [type, dict]; dict is its *)
(* __dict__, the (name, value) entries in insertion order.                 *)
(***************************************************************************)
Entry(name, val) == [name |-> name, value |-> val]

DictHas(d, name) == \E i \in 1..Len(d) : d[i].name = name

DictSet(d, name, val) ==
    IF DictHas(d, name)
    THEN [i \in 1..Len(d) |-> IF d[i].name = name THEN Entry(name, val) ELSE d[i]]
    ELSE Append(d, Entry(name, val))

DictGet(d, name) == d[CHOOSE i \in 1..Len(d) : d[i].name = name].value

DictValues(d) == [i \in 1..Len(d) |-> d[i].value]

SetAttr(self, name, val) == [self EXCEPT !.dict = DictSet(self.dict, name, val)]

GetAttr(self, name) == DictGet(self.dict, name)

RECURSIVE SetAttrs(_, _)
SetAttrs(self, kwargs) ==
    IF kwargs = <<>> THEN self
    ELSE SetAttrs(SetAttr(self, Head(kwargs).name, Head(kwargs).value), Tail(kwargs))

(***************************************************************************)
(* HyperGalaxy.                                                            *)
(***************************************************************************)
HyperGalaxyInit_NumberNotDrawn(contribution_factor, noise_factor, noise_power, ids) ==
    [type |-> "HyperGalaxy",
     contribution_factor |-> contribution_factor,
     noise_factor |-> noise_factor,
     noise_power |-> noise_power,
     component_number |-> 0]

HyperGalaxyInit(contribution_factor, noise_factor, noise_power, ids) ==
    [type |-> "HyperGalaxy",
     contribution_factor |-> contribution_factor,
     noise_factor |-> noise_factor,
     noise_power |-> noise_power,
     component_number |-> ids]

HyperGalaxyEq_WithComponentNumber(self, other) ==
    IF other.type = "HyperGalaxy"
    THEN /\ self.contribution_factor = other.contribution_factor
         /\ self.noise_factor = other.noise_factor
         /\ self.noise_power = other.noise_power
         /\ self.component_number = other.component_number
    ELSE FALSE

HyperGalaxyEq(self, other) ==
    IF other.type = "HyperGalaxy"
    THEN /\ self.contribution_factor = other.contribution_factor
         /\ self.noise_factor = other.noise_factor
         /\ self.noise_power = other.noise_power
    ELSE FALSE

(***************************************************************************)
(* Floating point values that are not whole numbers: num / den in lowest   *)
(* terms with den > 0, and den = 0 for the IEEE specials (num = 1: inf,    *)
(* num = -1: -inf, num = 0: nan), as numpy produces them without raising.  *)
(***************************************************************************)
RECURSIVE GCD(_, _)
GCD(a, b) == IF b = 0 THEN a ELSE GCD(b, a % b)

Abs(n) == IF n < 0 THEN -n ELSE n

Sign(n) == IF n < 0 THEN -1 ELSE IF n = 0 THEN 0 ELSE 1

Frac(n, d) ==
    IF d = 0 THEN [num |-> Sign(n), den |-> 0]
    ELSE LET g == GCD(Abs(n), Abs(d))
         IN  [num |-> Sign(d) * (n \div g), den |-> Abs(d) \div g]

Whole(n) == Frac(n, 1)

NaN == Frac(0, 0)

IsFinite(a) == a.den > 0

FMul(a, b) == Frac(a.num * b.num, a.den * b.den)

FDiv_ZeroForZeroByZero(a, b) ==
    IF a.num = 0 /\ b.num = 0 THEN Whole(0)
    ELSE IF a.den = 0 /\ b.num < 0 THEN Frac(-a.num * b.den, 0)
    ELSE Frac(a.num * b.den, a.den * b.num)

FDiv(a, b) ==
    IF a.den = 0 /\ b.num < 0 THEN Frac(-a.num * b.den, 0)
    ELSE Frac(a.num * b.den, a.den * b.num)

FAdd(a, b) ==
    IF a.den = 0 /\ b.den = 0 THEN (IF a = b THEN a ELSE NaN)
    ELSE Frac(a.num * b.den + b.num * a.den, a.den * b.den)

\* a ** n for a whole n >= 1
RECURSIVE FPow(_, _)
FPow(a, n) == IF n = 1 THEN a ELSE FMul(a, FPow(a, n - 1))

\* a <= b, false when either is nan
FLeq(a, b) ==
    IF a = NaN \/ b = NaN THEN FALSE
    ELSE IF a.den = 0 /\ b.den = 0 THEN a.num <= b.num
    ELSE a.num * b.den <= b.num * a.den

NdFloat(elems) == [type |-> "ndarray(float)", elems |-> elems]

\* an ndarray of whole numbers as floats
AsFloats(array) == NdFloat([i \in 1..Len(array.data) |-> Whole(array.data[i])])

\* np.max of a non-empty array: nan if any element is nan
NpMax(array) ==
    IF \E i \in 1..Len(array.elems) : array.elems[i] = NaN THEN NaN
    ELSE array.elems[CHOOSE i \in 1..Len(array.elems) :
                        \A j \in 1..Len(array.elems) :
                            FLeq(array.elems[j], array.elems[i])]

(***************************************************************************)
(* HyperGalaxy: contribution map and scaled noise map.                     *)
(***************************************************************************)
contribution_map_from_hyper_images_Unnormalised(self, hyper_model_image, hyper_galaxy_image) ==
    NdFloat([i \in 1..Len(hyper_galaxy_image.data) |->
        FDiv(Whole(hyper_galaxy_image.data[i]),
             FAdd(Whole(hyper_model_image.data[i]), Whole(self.contribution_factor)))])

contribution_map_from_hyper_images(self, hyper_model_image, hyper_galaxy_image) ==
    LET contribution_map ==
            NdFloat([i \in 1..Len(hyper_galaxy_image.data) |->
                FDiv(Whole(hyper_galaxy_image.data[i]),
                     FAdd(Whole(hyper_model_image.data[i]),
                          Whole(self.contribution_factor)))])
    IN  NdFloat([i \in 1..Len(contribution_map.elems) |->
            FDiv(contribution_map.elems[i], NpMax(contribution_map))])

hyper_noise_map_from_contribution_map_FactorInsidePower(self, noise_map, contribution_map) ==
    NdFloat([i \in 1..Len(noise_map.data) |->
        FPow(FMul(Whole(self.noise_factor),
                  FMul(Whole(noise_map.data[i]), contribution_map.elems[i])),
             self.noise_power)])

hyper_noise_map_from_contribution_map(self, noise_map, contribution_map) ==
    NdFloat([i \in 1..Len(noise_map.data) |->
        FMul(Whole(self.noise_factor),
             FPow(FMul(Whole(noise_map.data[i]), contribution_map.elems[i]),
                  self.noise_power))])

hyper_noise_map_from_hyper_images_and_noise_map(self, hyper_model_image, hyper_galaxy_image, noise_map) ==
    LET contribution_map ==
            contribution_map_from_hyper_images(self, hyper_model_image,
                                               hyper_galaxy_image)
    IN  hyper_noise_map_from_contribution_map(self, noise_map, contribution_map)

(***************************************************************************)
(* Python's == on the values a Galaxy holds: HyperGalaxy defines __eq__,   *)
(* every other value compares by value.                                    *)
(***************************************************************************)
PyEq(a, b) ==
    IF a.type = "HyperGalaxy" THEN HyperGalaxyEq(a, b)
    ELSE IF b.type = "HyperGalaxy" THEN HyperGalaxyEq(b, a)
    ELSE a = b

PyListEq(s, t) ==
    /\ Len(s) = Len(t)
    /\ \A i \in 1..Len(s) : PyEq(s[i], t[i])

(***************************************************************************)
(* Galaxy: construction.                                                   *)
(***************************************************************************)
ModelObjectInit(ids) == [type |-> "Galaxy", dict |-> <<Entry("id", PyInt(ids))>>]

GalaxyInitFields(ids, redshift, pixelization, regularization, kwargs) ==
    SetAttr(
        SetAttr(
            SetAttrs(
                SetAttr(
                    SetAttr(
                        SetAttr(
                            SetAttr(ModelObjectInit(ids), "redshift", redshift),
                            "hyper_model_image_1d", None),
                        "hyper_galaxy_image_1d", None),
                    "binned_hyper_galaxy_image_1d", None),
                kwargs),
            "pixelization", pixelization),
        "regularization", regularization)

GalaxyInit_OneSidedCheck(ids, redshift, pixelization, regularization, hyper_galaxy, kwargs) ==
    LET self == GalaxyInitFields(ids, redshift, pixelization, regularization, kwargs)
    IN  IF pixelization # None /\ regularization = None
        THEN [raised |-> "GalaxyException", self |-> self]
        ELSE [raised |-> "None", self |-> SetAttr(self, "hyper_galaxy", hyper_galaxy)]

GalaxyInit_KwargsDropped(ids, redshift, pixelization, regularization, hyper_galaxy, kwargs) ==
    LET self == GalaxyInitFields(ids, redshift, pixelization, regularization, <<>>)
    IN  IF pixelization # None /\ regularization = None
        THEN [raised |-> "GalaxyException", self |-> self]
        ELSE IF pixelization = None /\ regularization # None
        THEN [raised |-> "GalaxyException", self |-> self]
        ELSE [raised |-> "None", self |-> SetAttr(self, "hyper_galaxy", hyper_galaxy)]

GalaxyInit(ids, redshift, pixelization, regularization, hyper_galaxy, kwargs) ==
    LET self == GalaxyInitFields(ids, redshift, pixelization, regularization, kwargs)
    IN  IF pixelization # None /\ regularization = None
        THEN [raised |-> "GalaxyException", self |-> self]
        ELSE IF pixelization = None /\ regularization # None
        THEN [raised |-> "GalaxyException", self |-> self]
        ELSE [raised |-> "None", self |-> SetAttr(self, "hyper_galaxy", hyper_galaxy)]

(***************************************************************************)
(* Galaxy: identity, derived profile lists, equality.                      *)
(***************************************************************************)
hash_ByRedshift(self) == GetAttr(self, "redshift").value

hash(self) == GetAttr(self, "id").value

light_profiles(self) == SelectSeq(DictValues(self.dict), is_light_profile)

mass_profiles(self) == SelectSeq(DictValues(self.dict), is_mass_profile)

has_redshift(self) == GetAttr(self, "redshift") # None

has_pixelization(self) == GetAttr(self, "pixelization") # None

has_regularization(self) == GetAttr(self, "regularization") # None

has_hyper_galaxy(self) == GetAttr(self, "hyper_galaxy") # None

has_light_profile(self) == Len(light_profiles(self)) > 0

has_mass_profile(self) == Len(mass_profiles(self)) > 0

has_profile(self) == Len(mass_profiles(self)) + Len(light_profiles(self)) > 0

GalaxyAttributes ==
    {"pixelization", "redshift", "hyper_galaxy", "light_profiles", "mass_profiles"}

HasAttribute(obj, name) ==
    IF obj.type = "Galaxy"
    THEN name \in {"light_profiles", "mass_profiles"} \/ DictHas(obj.dict, name)
    ELSE FALSE

GalaxyEqAll(self, other) ==
    /\ other.type = "Galaxy"
    /\ PyEq(GetAttr(self, "pixelization"), GetAttr(other, "pixelization"))
    /\ PyEq(GetAttr(self, "redshift"), GetAttr(other, "redshift"))
    /\ PyEq(GetAttr(self, "hyper_galaxy"), GetAttr(other, "hyper_galaxy"))
    /\ PyListEq(light_profiles(self), light_profiles(other))
    /\ PyListEq(mass_profiles(self), mass_profiles(other))

GalaxyEq_ById(self, other) ==
    IF \E name \in GalaxyAttributes : ~HasAttribute(other, name)
    THEN [raised |-> "AttributeError", result |-> FALSE]
    ELSE [raised |-> "None",
          result |-> GalaxyEqAll(self, other) /\ GetAttr(self, "id") = GetAttr(other, "id")]

GalaxyEq(self, other) ==
    IF \E name \in GalaxyAttributes : ~HasAttribute(other, name)
    THEN [raised |-> "AttributeError", result |-> FALSE]
    ELSE [raised |-> "None", result |-> GalaxyEqAll(self, other)]

(***************************************************************************)
(* numpy arithmetic and Python's sum() as the aggregation methods use them.*)
(***************************************************************************)
zeros(n) == NdArray([i \in 1..n |-> 0])

full_n_2(n, v) == NdGrid([i \in 1..n |-> <<v, v>>])

\* a + b with numpy broadcasting of a Python number against an array
NpAdd(a, b) ==
    IF a.type = "int" /\ b.type = "int" THEN PyInt(a.value + b.value)
    ELSE IF a.type = "int" /\ b.type = "float" THEN PyFloat(a.value + b.value)
    ELSE IF a.type = "float" /\ b.type = "float" THEN PyFloat(a.value + b.value)
    ELSE IF a.type = "int" /\ b.type = "ndarray"
    THEN NdArray([i \in 1..Len(b.data) |-> a.value + b.data[i]])
    ELSE IF a.type = "int" /\ b.type = "ndarray(n,2)"
    THEN NdGrid([i \in 1..Len(b.rows) |->
                    <<a.value + b.rows[i][1], a.value + b.rows[i][2]>>])
    ELSE IF a.type = "ndarray" /\ b.type = "ndarray"
    THEN NdArray([i \in 1..Len(a.data) |-> a.data[i] + b.data[i]])
    ELSE NdGrid([i \in 1..Len(a.rows) |->
                    <<a.rows[i][1] + b.rows[i][1], a.rows[i][2] + b.rows[i][2]>>])

\* sum(items): 0 + items[1] + items[2] + ...
RECURSIVE PySumFrom(_, _)
PySumFrom(acc, items) ==
    IF items = <<>> THEN acc
    ELSE PySumFrom(NpAdd(acc, Head(items)), Tail(items))

PySum_SkippingFirst(items) ==
    IF Len(items) > 1 THEN PySumFrom(PyInt(0), Tail(items)) ELSE PySumFrom(PyInt(0), items)

PySum(items) == PySumFrom(PyInt(0), items)

(***************************************************************************)
(* The profiles' own evaluations and the grid's mapping: collaborators of  *)
(* the Galaxy, each a fixed function of the profile and the point.         *)
(***************************************************************************)
Radial(pt) == 4 - pt[1] * pt[1] - pt[2] * pt[2]

LightProfileImage(p, grid) ==
    NdArray([i \in 1..Len(grid.points) |-> p.intensity * Radial(grid.points[i])])

MassStrength(p) ==
    IF p.type = "mp.MassSheet" THEN p.kappa
    ELSE IF p.type = "mp.SphericalIsothermal" THEN p.einstein_radius
    ELSE p.intensity * p.mass_to_light_ratio

MassProfileConvergence(p, grid) ==
    NdArray([i \in 1..Len(grid.points) |-> MassStrength(p)])

MassProfilePotential(p, grid) ==
    NdArray([i \in 1..Len(grid.points) |->
        MassStrength(p) * (grid.points[i][1] * grid.points[i][1]
                           + grid.points[i][2] * grid.points[i][2])])

\* a sheet deflects in proportion to the position; the isothermal profile's
\* deflection is not linear in the position and not symmetric in y and x
MassProfileDeflections(p, grid) ==
    IF p.type = "mp.SphericalIsothermal"
    THEN NdGrid([i \in 1..Len(grid.points) |->
            <<p.einstein_radius * (6 * Abs(grid.points[i][1]) - 8 * grid.points[i][2]),
              p.einstein_radius * (6 * Abs(grid.points[i][2]) + 8 * grid.points[i][1])>>])
    ELSE NdGrid([i \in 1..Len(grid.points) |->
            <<MassStrength(p) * grid.points[i][1], MassStrength(p) * grid.points[i][2]>>])

LightProfileLuminosityCircle(p, radius, redshift_profile) ==
    PyFloat(p.intensity * radius * radius + redshift_profile.value)

LightProfileLuminosityEllipse(p, major_axis, redshift_profile) ==
    PyFloat(p.intensity * major_axis + redshift_profile.value)

MassProfileMassCircle(p, radius, redshift_profile) ==
    PyFloat(MassStrength(p) * radius * radius * redshift_profile.value)

MassProfileMassEllipse(p, major_axis, redshift_profile) ==
    PyFloat(MassStrength(p) * major_axis * redshift_profile.value)

MassProfileEinsteinRadius(p, redshift_profile) ==
    PyFloat(MassStrength(p) + redshift_profile.value)

MassProfileEinsteinMass(p, redshift_profile) ==
    PyFloat(MassStrength(p) * MassStrength(p) * redshift_profile.value)

\* grid.mapping.array_from_sub_array_1d: an array structure over the grid,
\* defined for a 1D ndarray with one entry per grid point
array_from_sub_array_1d(grid, sub_array_1d) ==
    IF sub_array_1d.type = "ndarray" /\ Len(sub_array_1d.data) = Len(grid.points)
    THEN [raised |-> "None",
          result |-> [type |-> "Array", in_1d |-> sub_array_1d.data]]
    ELSE [raised |-> "ValueError", result |-> None]

\* grid.mapping.grid_from_sub_grid_1d: a grid structure over the grid,
\* defined for an (n, 2) ndarray with one row per grid point
grid_from_sub_grid_1d(grid, sub_grid_1d) ==
    IF sub_grid_1d.type = "ndarray(n,2)" /\ Len(sub_grid_1d.rows) = Len(grid.points)
    THEN [raised |-> "None",
          result |-> [type |-> "GridStructure", in_1d |-> sub_grid_1d.rows]]
    ELSE [raised |-> "ValueError", result |-> None]

Map(items, F(_)) == [i \in 1..Len(items) |-> F(items[i])]

(***************************************************************************)
(* Galaxy: quantities summed over the profiles on a grid.                  *)
(***************************************************************************)
profile_image_from_grid_NoFallback(self, grid) ==
    LET image(p) == LightProfileImage(p, grid)
    IN  array_from_sub_array_1d(grid, PySum(Map(light_profiles(self), image)))

profile_image_from_grid(self, grid) ==
    LET image(p) == LightProfileImage(p, grid)
    IN  IF has_light_profile(self)
        THEN array_from_sub_array_1d(grid, PySum(Map(light_profiles(self), image)))
        ELSE array_from_sub_array_1d(grid, zeros(Len(grid.points)))

convergence_from_grid(self, grid) ==
    LET convergence(p) == MassProfileConvergence(p, grid)
    IN  IF has_mass_profile(self)
        THEN array_from_sub_array_1d(grid, PySum(Map(mass_profiles(self), convergence)))
        ELSE array_from_sub_array_1d(grid, zeros(Len(grid.points)))

potential_from_grid(self, grid) ==
    LET potential(p) == MassProfilePotential(p, grid)
    IN  IF has_mass_profile(self)
        THEN array_from_sub_array_1d(grid, PySum(Map(mass_profiles(self), potential)))
        ELSE array_from_sub_array_1d(grid, zeros(Len(grid.points)))

deflections_from_grid(self, grid) ==
    LET deflections(p) == MassProfileDeflections(p, grid)
    IN  IF has_mass_profile(self)
        THEN grid_from_sub_grid_1d(grid, PySum(Map(mass_profiles(self), deflections)))
        ELSE grid_from_sub_grid_1d(grid, full_n_2(Len(grid.points), 0))

(***************************************************************************)
(* Grids with a native 2D layout, and numpy's gradient along one axis.     *)
(***************************************************************************)
\* a grid of shape_2d[1] rows and shape_2d[2] columns, its points row by row
Grid2D(shape_2d, points) ==
    [type |-> "Grid", points |-> points, shape_2d |-> shape_2d]

\* an array is computed once, when it is made
Computed(elements) == elements \o <<>>

NdArray2D(shape_2d, data) ==
    [type |-> "ndarray(2d)", shape_2d |-> shape_2d, data |-> Computed(data)]

\* position in the row by row order of the entry at (row, column), from 1
Index2D(shape_2d, row, column) == (row - 1) * shape_2d[2] + column

\* deflections.in_2d[:, :, k] (k from 1)
in_2d_component(grid, deflections, k) ==
    NdArray2D(grid.shape_2d, [i \in 1..Len(deflections.in_1d) |-> deflections.in_1d[i][k]])

\* grid.in_2d[0, :, 1]: the x coordinates of the first row
grid_in_2d_first_row_x(grid) ==
    [c \in 1..grid.shape_2d[2] |-> grid.points[Index2D(grid.shape_2d, 1, c)][2]]

\* grid.in_2d[:, 0, 0]: the y coordinates of the first column
grid_in_2d_first_column_y(grid) ==
    [r \in 1..grid.shape_2d[1] |-> grid.points[Index2D(grid.shape_2d, r, 1)][1]]

GradientAt_IndexSpacing(f, x, i) ==
    IF i = 1 THEN f[2] - f[1]
    ELSE IF i = Len(f) THEN f[i] - f[i - 1]
    ELSE (f[i + 1] - f[i - 1]) \div 2

\* np.gradient of the samples f at the coordinates x, at position i: one-sided
\* differences at both ends, the second order difference for uneven spacing
\* inside
GradientAt(f, x, i) ==
    IF i = 1 THEN (f[2] - f[1]) \div (x[2] - x[1])
    ELSE IF i = Len(f) THEN (f[i] - f[i - 1]) \div (x[i] - x[i - 1])
    ELSE LET hs == x[i] - x[i - 1]
             hd == x[i + 1] - x[i]
         IN  (hs * hs * f[i + 1] + (hd * hd - hs * hs) * f[i] - hd * hd * f[i - 1])
                \div (hs * hd * (hd + hs))

\* np.gradient(array_2d, coordinates, axis=axis) (axis 0: along the rows of a
\* column, axis 1: along the columns of a row); numpy refuses an axis with
\* fewer than two entries: the differences of its coordinates are empty and
\* reading the first of them raises IndexError
np_gradient(array_2d, coordinates, axis) ==
    LET rows == array_2d.shape_2d[1]
        columns == array_2d.shape_2d[2]
        column_of(c) == [r \in 1..rows |-> array_2d.data[Index2D(array_2d.shape_2d, r, c)]]
        row_of(r) == [c \in 1..columns |-> array_2d.data[Index2D(array_2d.shape_2d, r, c)]]
    IN  IF (axis = 0 /\ rows < 2) \/ (axis = 1 /\ columns < 2)
        THEN [raised |-> "IndexError", result |-> None]
        ELSE [raised |-> "None",
              result |-> NdArray2D(array_2d.shape_2d,
                  [i \in 1..(rows * columns) |->
                      LET r == ((i - 1) \div columns) + 1
                          c == ((i - 1) % columns) + 1
                      IN  IF axis = 0
                          THEN GradientAt(column_of(c), coordinates, r)
                          ELSE GradientAt(row_of(r), coordinates, c)])]

\* grid.mapping.array_from_sub_array_2d: an array structure over the grid,
\* defined for a 2D ndarray of the grid's shape
array_from_sub_array_2d(grid, sub_array_2d) ==
    IF sub_array_2d.type = "ndarray(2d)" /\ sub_array_2d.shape_2d = grid.shape_2d
    THEN [raised |-> "None",
          result |-> [type |-> "Array", in_1d |-> Computed(sub_array_2d.data)]]
    ELSE [raised |-> "ValueError", result |-> None]

\* a value computed once and then used by what follows
With(value, Body(_)) == CHOOSE result \in {Body(v) : v \in {value}} : TRUE

\* exceptions pass through the caller
Failed(call) == call.raised # "None"

Raise(call) == [raised |-> call.raised, result |-> None]

Return(result) == [raised |-> "None", result |-> result]

(***************************************************************************)
(* Galaxy: the lensing Jacobian from the deflections.                      *)
(***************************************************************************)
\* offset + factor * np.gradient(deflections.in_2d[:, :, k], coordinates, axis)
JacobianEntry(self, grid, offset, factor, k, coordinates, axis) ==
    With(deflections_from_grid(self, grid), LAMBDA deflections :
      IF Failed(deflections) THEN Raise(deflections)
      ELSE With(in_2d_component(grid, deflections.result, k), LAMBDA component :
        With(np_gradient(component, coordinates, axis), LAMBDA gradient :
          IF Failed(gradient) THEN Raise(gradient)
          ELSE array_from_sub_array_2d(grid,
                 NdArray2D(grid.shape_2d,
                     [i \in 1..Len(gradient.result.data) |->
                         offset + factor * gradient.result.data[i]])))))

jacobian_a11_from_grid(self, grid) ==
    JacobianEntry(self, grid, 1, -1, 2, grid_in_2d_first_row_x(grid), 1)

jacobian_a12_from_grid(self, grid) ==
    JacobianEntry(self, grid, 0, -1, 2, grid_in_2d_first_column_y(grid), 0)

jacobian_a21_from_grid(self, grid) ==
    JacobianEntry(self, grid, 0, -1, 1, grid_in_2d_first_row_x(grid), 1)

jacobian_a22_from_grid_WithoutOne(self, grid) ==
    JacobianEntry(self, grid, 0, -1, 1, grid_in_2d_first_column_y(grid), 0)

jacobian_a22_from_grid(self, grid) ==
    JacobianEntry(self, grid, 1, -1, 1, grid_in_2d_first_column_y(grid), 0)

\* [[a11, a12], [a21, a22]]
jacobian_from_grid(self, grid) ==
    With(jacobian_a11_from_grid(self, grid), LAMBDA a11 :
      IF Failed(a11) THEN Raise(a11)
      ELSE With(jacobian_a12_from_grid(self, grid), LAMBDA a12 :
        IF Failed(a12) THEN Raise(a12)
        ELSE With(jacobian_a21_from_grid(self, grid), LAMBDA a21 :
          IF Failed(a21) THEN Raise(a21)
          ELSE With(jacobian_a22_from_grid(self, grid), LAMBDA a22 :
            IF Failed(a22) THEN Raise(a22)
            ELSE Return(<<<<a11.result, a12.result>>,
                          <<a21.result, a22.result>>>>)))))

\* 0.5 * n and n ** 0.5 on the whole numbers that stand for the floats
Half(n) == n \div 2

Sqrt(n) == CHOOSE r \in 0..n : r * r = n

convergence_via_jacobian_from_grid_NoHalf(self, grid) ==
    With(jacobian_from_grid(self, grid), LAMBDA jacobian :
      IF Failed(jacobian) THEN Raise(jacobian)
      ELSE array_from_sub_array_1d(grid,
             NdArray(Computed([i \in 1..Len(grid.points) |->
                 1 - (jacobian.result[1][1].in_1d[i]
                      + jacobian.result[2][2].in_1d[i])]))))

convergence_via_jacobian_from_grid(self, grid) ==
    With(jacobian_from_grid(self, grid), LAMBDA jacobian :
      IF Failed(jacobian) THEN Raise(jacobian)
      ELSE array_from_sub_array_1d(grid,
             NdArray(Computed([i \in 1..Len(grid.points) |->
                 1 - Half(jacobian.result[1][1].in_1d[i]
                          + jacobian.result[2][2].in_1d[i])]))))

shear_via_jacobian_from_grid(self, grid) ==
    With(jacobian_from_grid(self, grid), LAMBDA jacobian :
      IF Failed(jacobian) THEN Raise(jacobian)
      ELSE array_from_sub_array_1d(grid,
             NdArray(Computed([i \in 1..Len(grid.points) |->
                 LET gamma_1 == Half(jacobian.result[2][2].in_1d[i]
                                     - jacobian.result[1][1].in_1d[i])
                     gamma_2 == -Half(jacobian.result[1][2].in_1d[i]
                                      + jacobian.result[2][1].in_1d[i])
                 IN  Sqrt(gamma_1 * gamma_1 + gamma_2 * gamma_2)]))))

tangential_eigen_value_from_grid_AnalyticConvergence(self, grid) ==
    With(convergence_from_grid(self, grid), LAMBDA convergence :
      With(shear_via_jacobian_from_grid(self, grid), LAMBDA shear :
        IF Failed(convergence) THEN Raise(convergence)
        ELSE IF Failed(shear) THEN Raise(shear)
        ELSE array_from_sub_array_1d(grid,
               NdArray(Computed([i \in 1..Len(grid.points) |->
                   1 - convergence.result.in_1d[i] - shear.result.in_1d[i]])))))

tangential_eigen_value_from_grid(self, grid) ==
    With(convergence_via_jacobian_from_grid(self, grid), LAMBDA convergence :
      IF Failed(convergence) THEN Raise(convergence)
      ELSE With(shear_via_jacobian_from_grid(self, grid), LAMBDA shear :
        IF Failed(shear) THEN Raise(shear)
        ELSE array_from_sub_array_1d(grid,
               NdArray(Computed([i \in 1..Len(grid.points) |->
                   1 - convergence.result.in_1d[i] - shear.result.in_1d[i]])))))

radial_eigen_value_from_grid_MinusShear(self, grid) ==
    With(convergence_via_jacobian_from_grid(self, grid), LAMBDA convergence :
      IF Failed(convergence) THEN Raise(convergence)
      ELSE With(shear_via_jacobian_from_grid(self, grid), LAMBDA shear :
        IF Failed(shear) THEN Raise(shear)
        ELSE Return([type |-> "Array",
                     in_1d |-> Computed([i \in 1..Len(grid.points) |->
                         1 - convergence.result.in_1d[i]
                           - shear.result.in_1d[i]])])))

\* the arithmetic on two array structures gives an array structure
radial_eigen_value_from_grid(self, grid) ==
    With(convergence_via_jacobian_from_grid(self, grid), LAMBDA convergence :
      IF Failed(convergence) THEN Raise(convergence)
      ELSE With(shear_via_jacobian_from_grid(self, grid), LAMBDA shear :
        IF Failed(shear) THEN Raise(shear)
        ELSE Return([type |-> "Array",
                     in_1d |-> Computed([i \in 1..Len(grid.points) |->
                         1 - convergence.result.in_1d[i]
                           + shear.result.in_1d[i]])])))

magnification_from_grid_DiagonalOnly(self, grid) ==
    With(jacobian_from_grid(self, grid), LAMBDA jacobian :
      IF Failed(jacobian) THEN Raise(jacobian)
      ELSE Return([type |-> "Array(float)",
                   elems |-> Computed([i \in 1..Len(grid.points) |->
                       FDiv(Whole(1),
                            Whole(jacobian.result[1][1].in_1d[i]
                                    * jacobian.result[2][2].in_1d[i]))])]))

\* 1 / det_jacobian: numpy divides by zero without raising
magnification_from_grid(self, grid) ==
    With(jacobian_from_grid(self, grid), LAMBDA jacobian :
      IF Failed(jacobian) THEN Raise(jacobian)
      ELSE Return([type |-> "Array(float)",
                   elems |-> Computed([i \in 1..Len(grid.points) |->
                       FDiv(Whole(1),
                            Whole(jacobian.result[1][1].in_1d[i]
                                    * jacobian.result[2][2].in_1d[i]
                                  - jacobian.result[1][2].in_1d[i]
                                    * jacobian.result[2][1].in_1d[i]))])]))

(***************************************************************************)
(* Critical curves and caustics. The contour tracer and the conversion of  *)
(* its pixel positions to coordinates are collaborators of the Galaxy.     *)
(***************************************************************************)
EmptyList == [type |-> "list", items |-> <<>>]

PyLen(obj) == IF obj.type = "list" THEN Len(obj.items) ELSE Len(obj.points)

\* measure.find_contours(array_2d, level): the list of contours, each a list
\* of pixel positions (row, column) counted from 0. A value is low when it is
\* not above the level. One contour per row in which neighbouring columns
\* differ in being low, followed by one per column in which neighbouring
\* rows differ; a contour holds the position before each such change.
find_contours(shape_2d, in_1d, level) ==
    LET rows == shape_2d[1]
        columns == shape_2d[2]
        low(r, c) == in_1d[Index2D(shape_2d, r, c)] <= level
        changes_in_row(r) ==
            LET changes(c) == c < columns /\ low(r, c) # low(r, c + 1)
                position(c) == <<r - 1, c - 1>>
            IN  [k \in 1..Cardinality({c \in 1..columns : changes(c)}) |->
                    position(CHOOSE c \in 1..columns :
                        /\ changes(c)
                        /\ Cardinality({b \in 1..c : changes(b)}) = k)]
        changes_in_column(c) ==
            LET changes(r) == r < rows /\ low(r, c) # low(r + 1, c)
                position(r) == <<r - 1, c - 1>>
            IN  [k \in 1..Cardinality({r \in 1..rows : changes(r)}) |->
                    position(CHOOSE r \in 1..rows :
                        /\ changes(r)
                        /\ Cardinality({b \in 1..r : changes(b)}) = k)]
        NonEmpty(contour) == contour # <<>>
    IN  SelectSeq([r \in 1..rows |-> changes_in_row(r)], NonEmpty)
            \o SelectSeq([c \in 1..columns |-> changes_in_column(c)], NonEmpty)

\* grid.geometry.grid_arcsec_from_grid_pixels_1d_for_marching_squares: the
\* coordinates of the pixel positions on a grid of the given shape
grid_arcsec_from_grid_pixels_1d_for_marching_squares(grid, grid_pixels_1d, shape_2d) ==
    Grid(Computed([i \in 1..Len(grid_pixels_1d) |->
            grid.points[Index2D(shape_2d, grid_pixels_1d[i][1] + 1,
                                grid_pixels_1d[i][2] + 1)]]))

\* the critical curve of an eigenvalue field
CriticalCurve_LastContour(grid, eigen_values) ==
    IF Failed(eigen_values) THEN Raise(eigen_values)
    ELSE With(find_contours(grid.shape_2d, eigen_values.result.in_1d, 0),
           LAMBDA critical_curve_indices :
             IF Len(critical_curve_indices) = 0 THEN Return(EmptyList)
             ELSE Return(grid_arcsec_from_grid_pixels_1d_for_marching_squares(
                     grid, critical_curve_indices[Len(critical_curve_indices)],
                     grid.shape_2d)))

CriticalCurve(grid, eigen_values) ==
    IF Failed(eigen_values) THEN Raise(eigen_values)
    ELSE With(find_contours(grid.shape_2d, eigen_values.result.in_1d, 0),
           LAMBDA critical_curve_indices :
             IF Len(critical_curve_indices) = 0 THEN Return(EmptyList)
             ELSE Return(grid_arcsec_from_grid_pixels_1d_for_marching_squares(
                     grid, critical_curve_indices[1], grid.shape_2d)))

tangential_critical_curve_from_grid(self, grid) ==
    With(tangential_eigen_value_from_grid(self, grid), LAMBDA tangential_eigen_values :
      CriticalCurve(grid, tangential_eigen_values))

radial_critical_curve_from_grid(self, grid) ==
    With(radial_eigen_value_from_grid(self, grid), LAMBDA radial_eigen_values :
      CriticalCurve(grid, radial_eigen_values))

\* critical_curve - deflections_from_grid(critical_curve), or [] for []
Caustic_NotDeflected(self, critical_curve) ==
    IF Failed(critical_curve) THEN Raise(critical_curve)
    ELSE IF PyLen(critical_curve.result) = 0 THEN Return(EmptyList)
    ELSE Return(critical_curve.result)

Caustic(self, critical_curve) ==
    IF Failed(critical_curve) THEN Raise(critical_curve)
    ELSE IF PyLen(critical_curve.result) = 0 THEN Return(EmptyList)
    ELSE With(deflections_from_grid(self, critical_curve.result), LAMBDA deflections :
           IF Failed(deflections) THEN Raise(deflections)
           ELSE Return(Grid(Computed([i \in 1..Len(critical_curve.result.points) |->
                   <<critical_curve.result.points[i][1]
                        - deflections.result.in_1d[i][1],
                     critical_curve.result.points[i][2]
                        - deflections.result.in_1d[i][2]>>]))))

tangential_caustic_from_grid(self, grid) ==
    With(tangential_critical_curve_from_grid(self, grid),
         LAMBDA tangential_critical_curve : Caustic(self, tangential_critical_curve))

radial_caustic_from_grid(self, grid) ==
    With(radial_critical_curve_from_grid(self, grid),
         LAMBDA radial_critical_curve : Caustic(self, radial_critical_curve))

critical_curves_from_grid(self, grid) ==
    With(tangential_critical_curve_from_grid(self, grid), LAMBDA tangential :
      IF Failed(tangential) THEN Raise(tangential)
      ELSE With(radial_critical_curve_from_grid(self, grid), LAMBDA radial :
        IF Failed(radial) THEN Raise(radial)
        ELSE Return(<<tangential.result, radial.result>>)))

caustics_from_grid(self, grid) ==
    With(tangential_caustic_from_grid(self, grid), LAMBDA tangential :
      IF Failed(tangential) THEN Raise(tangential)
      ELSE With(radial_caustic_from_grid(self, grid), LAMBDA radial :
        IF Failed(radial) THEN Raise(radial)
        ELSE Return(<<tangential.result, radial.result>>)))

(***************************************************************************)
(* Galaxy: integrated quantities, None when no profile of the kind.        *)
(***************************************************************************)
luminosity_within_circle_in_units(self, radius) ==
    LET luminosity(p) == LightProfileLuminosityCircle(p, radius, GetAttr(self, "redshift"))
    IN  IF has_light_profile(self) THEN PySum(Map(light_profiles(self), luminosity))
        ELSE None

luminosity_within_ellipse_in_units(self, major_axis) ==
    LET luminosity(p) ==
            LightProfileLuminosityEllipse(p, major_axis, GetAttr(self, "redshift"))
    IN  IF has_light_profile(self) THEN PySum(Map(light_profiles(self), luminosity))
        ELSE None

mass_within_circle_in_units_ZeroWhenEmpty(self, radius) ==
    LET mass(p) == MassProfileMassCircle(p, radius, GetAttr(self, "redshift"))
    IN  PySumFrom(PyFloat(0), Map(mass_profiles(self), mass))

mass_within_circle_in_units(self, radius) ==
    LET mass(p) == MassProfileMassCircle(p, radius, GetAttr(self, "redshift"))
    IN  IF has_mass_profile(self) THEN PySum(Map(mass_profiles(self), mass))
        ELSE None

mass_within_ellipse_in_units(self, major_axis) ==
    LET mass(p) == MassProfileMassEllipse(p, major_axis, GetAttr(self, "redshift"))
    IN  IF has_mass_profile(self) THEN PySum(Map(mass_profiles(self), mass))
        ELSE None

einstein_radius_in_units(self) ==
    LET radius(p) == MassProfileEinsteinRadius(p, GetAttr(self, "redshift"))
    IN  IF has_mass_profile(self) THEN PySum(Map(mass_profiles(self), radius))
        ELSE None

einstein_mass_in_units(self) ==
    LET mass(p) == MassProfileEinsteinMass(p, GetAttr(self, "redshift"))
    IN  IF has_mass_profile(self) THEN PySum(Map(mass_profiles(self), mass))
        ELSE None

(***************************************************************************)
(* Plane: what a fit is given as its plane; the fit reads plane.galaxies.  *)
(***************************************************************************)
PlaneInit(gals) == [type |-> "Plane", galaxies |-> gals]

(***************************************************************************)
(* The collaborators of a fit: the masked dataset, the hyper components    *)
(* and the methods of the plane the fit calls. Images, noise maps and      *)
(* visibilities are lists of one number per pixel.                         *)
(***************************************************************************)
\* numpy's a + b, a - b and k * a on arrays of one shape
ArrayAdd(a, b) == [i \in 1..Len(a) |-> a[i] + b[i]]

ArraySub(a, b) == [i \in 1..Len(a) |-> a[i] - b[i]]

ArrayScale(k, a) == [i \in 1..Len(a) |-> k * a[i]]

RECURSIVE ArraySum(_, _)
ArraySum(zero, arrays) ==
    IF arrays = <<>> THEN zero ELSE ArraySum(ArrayAdd(zero, Head(arrays)), Tail(arrays))

RECURSIVE IntPow(_, _)
IntPow(a, n) == IF n = 0 THEN 1 ELSE a * IntPow(a, n - 1)

HyperImageSky(sky_scale) == [type |-> "HyperImageSky", sky_scale |-> sky_scale]

HyperBackgroundNoise(noise_scale) ==
    [type |-> "HyperBackgroundNoise", noise_scale |-> noise_scale]

\* hyper_image_sky.hyper_image_from_image(image)
hyper_image_from_image(self, image) ==
    [i \in 1..Len(image) |-> image[i] + self.sky_scale]

\* hyper_background_noise.hyper_noise_map_from_noise_map(noise_map)
hyper_noise_map_from_noise_map(self, noise_map) ==
    [i \in 1..Len(noise_map) |-> noise_map[i] + self.noise_scale]

\* a masked dataset; `modified` tells a copy made by
\* modify_image_and_noise_map from the dataset that was passed in
MaskedImaging(image, noise_map, grid, convolver) ==
    [type |-> "MaskedImaging", image |-> image, noise_map |-> noise_map,
     grid |-> grid, convolver |-> convolver, modified |-> FALSE]

MaskedInterferometer(visibilities, noise_map, grid, transformer) ==
    [type |-> "MaskedInterferometer", visibilities |-> visibilities,
     noise_map |-> noise_map, grid |-> grid, transformer |-> transformer,
     modified |-> FALSE]

modify_image_and_noise_map(self, image, noise_map) ==
    [self EXCEPT !.image = image, !.noise_map = noise_map, !.modified = TRUE]

\* the same method of a masked interferometer, called with a noise map only
interferometer_modify_image_and_noise_map(self, noise_map) ==
    [self EXCEPT !.noise_map = noise_map, !.modified = TRUE]

plane_has_hyper_galaxy(plane) ==
    \E i \in 1..Len(plane.galaxies) : has_hyper_galaxy(plane.galaxies[i])

plane_has_pixelization(plane) ==
    \E i \in 1..Len(plane.galaxies) : has_pixelization(plane.galaxies[i])

galaxy_indexes_with_pixelizations(plane) ==
    LET Pixelized(i) == has_pixelization(plane.galaxies[i])
    IN  SelectSeq([i \in 1..Len(plane.galaxies) |-> i], Pixelized)

\* plane.hyper_noise_map_from_noise_map: the noise scaled by the hyper
\* galaxies of the plane, None for a plane without one
plane_hyper_noise_map_from_noise_map(plane, noise_map) ==
    LET Scaled(galaxy) ==
            IF has_hyper_galaxy(galaxy)
            THEN [i \in 1..Len(noise_map) |->
                    GetAttr(galaxy, "hyper_galaxy").noise_factor
                      * IntPow(noise_map[i], GetAttr(galaxy, "hyper_galaxy").noise_power)]
            ELSE [i \in 1..Len(noise_map) |-> 0]
    IN  IF plane_has_hyper_galaxy(plane)
        THEN ArraySum([i \in 1..Len(noise_map) |-> 0], Map(plane.galaxies, Scaled))
        ELSE None

\* the image of one galaxy's light profiles seen through the convolver, and
\* its visibilities through the transformer
GalaxyBlurredProfileImage(galaxy, grid, convolver) ==
    ArrayScale(convolver, profile_image_from_grid(galaxy, grid).result.in_1d)

GalaxyProfileVisibilities(galaxy, grid, transformer) ==
    [i \in 1..Len(grid.points) |->
        transformer + profile_image_from_grid(galaxy, grid).result.in_1d[i]]

\* plane.blurred_profile_image_from_grid_and_convolver
blurred_profile_image_from_grid_and_convolver(plane, grid, convolver) ==
    LET Blurred(galaxy) == GalaxyBlurredProfileImage(galaxy, grid, convolver)
    IN  ArraySum([i \in 1..Len(grid.points) |-> 0], Map(plane.galaxies, Blurred))

\* plane.profile_visibilities_from_grid_and_transformer
profile_visibilities_from_grid_and_transformer(plane, grid, transformer) ==
    LET Visibilities(galaxy) == GalaxyProfileVisibilities(galaxy, grid, transformer)
    IN  ArraySum([i \in 1..Len(grid.points) |-> 0], Map(plane.galaxies, Visibilities))

\* a Python dict keyed by galaxies, in insertion order: d.update({key: value})
GalaxyDictUpdate(d, key, value) ==
    IF \E i \in 1..Len(d) : d[i].key = key
    THEN [i \in 1..Len(d) |-> IF d[i].key = key THEN [key |-> key, value |-> value]
                              ELSE d[i]]
    ELSE Append(d, [key |-> key, value |-> value])

RECURSIVE GalaxyDictFrom(_, _)
GalaxyDictFrom(d, items) ==
    IF items = <<>> THEN d
    ELSE GalaxyDictFrom(GalaxyDictUpdate(d, Head(items).key, Head(items).value),
                        Tail(items))

\* plane.galaxy_blurred_profile_image_dict_from_grid_and_convolver
galaxy_blurred_profile_image_dict_from_grid_and_convolver(plane, grid, convolver) ==
    GalaxyDictFrom(<<>>, [i \in 1..Len(plane.galaxies) |->
        [key |-> plane.galaxies[i],
         value |-> GalaxyBlurredProfileImage(plane.galaxies[i], grid, convolver)]])

\* plane.galaxy_profile_image_dict_from_grid
galaxy_profile_image_dict_from_grid(plane, grid) ==
    GalaxyDictFrom(<<>>, [i \in 1..Len(plane.galaxies) |->
        [key |-> plane.galaxies[i],
         value |-> profile_image_from_grid(plane.galaxies[i], grid).result.in_1d]])

\* plane.inversion_imaging_from_grid_and_data and
\* plane.inversion_interferometer_from_grid_and_data: the inversion keeps the
\* data and the noise map it was fitted to; its reconstruction is the part of
\* the data above the noise
Inversion(data, noise_map) ==
    [type |-> "Inversion", data |-> data, noise_map |-> noise_map,
     mapped_reconstructed_image |-> ArraySub(data, noise_map),
     mapped_reconstructed_visibilities |-> ArraySub(data, noise_map)]

(***************************************************************************)
(* The fit of a plane to a masked dataset.                                 *)
(***************************************************************************)
hyper_image_from_image_and_hyper_image_sky(image, hyper_image_sky) ==
    IF hyper_image_sky # None
    THEN hyper_image_from_image(hyper_image_sky, image)
    ELSE image

hyper_noise_map_from_noise_map_plane_and_hyper_background_noise_ScaledFirst(noise_map, plane, hyper_background_noise) ==
    LET scaled == IF hyper_background_noise # None
                  THEN hyper_noise_map_from_noise_map(hyper_background_noise, noise_map)
                  ELSE noise_map
        hyper_noise_map == plane_hyper_noise_map_from_noise_map(plane, scaled)
    IN  IF hyper_noise_map # None THEN ArrayAdd(scaled, hyper_noise_map) ELSE scaled

hyper_noise_map_from_noise_map_plane_and_hyper_background_noise(noise_map, plane, hyper_background_noise) ==
    LET hyper_noise_map == plane_hyper_noise_map_from_noise_map(plane, noise_map)
        scaled == IF hyper_background_noise # None
                  THEN hyper_noise_map_from_noise_map(hyper_background_noise, noise_map)
                  ELSE noise_map
    IN  IF hyper_noise_map # None THEN ArrayAdd(scaled, hyper_noise_map) ELSE scaled

\* FitImaging(masked_imaging, plane, hyper_image_sky, hyper_background_noise)
FitImagingInit_RawImage(masked_imaging, plane, hyper_image_sky, hyper_background_noise) ==
    LET image == hyper_image_from_image_and_hyper_image_sky(
                     masked_imaging.image, hyper_image_sky)
        noise_map == hyper_noise_map_from_noise_map_plane_and_hyper_background_noise(
                         masked_imaging.noise_map, plane, hyper_background_noise)
        dataset == IF \/ plane_has_hyper_galaxy(plane)
                      \/ hyper_image_sky # None
                      \/ hyper_background_noise # None
                   THEN modify_image_and_noise_map(masked_imaging, image, noise_map)
                   ELSE masked_imaging
        blurred_profile_image ==
            blurred_profile_image_from_grid_and_convolver(
                plane, dataset.grid, dataset.convolver)
        profile_subtracted_image == ArraySub(masked_imaging.image, blurred_profile_image)
        inversion == IF ~plane_has_pixelization(plane) THEN None
                     ELSE Inversion(profile_subtracted_image, noise_map)
    IN  [type |-> "FitImaging", plane |-> plane, masked_dataset |-> dataset,
         profile_model |-> blurred_profile_image,
         profile_subtracted |-> profile_subtracted_image,
         model_data |-> IF inversion = None THEN blurred_profile_image
                        ELSE ArrayAdd(blurred_profile_image,
                                      inversion.mapped_reconstructed_image),
         inversion |-> inversion]

FitImagingInit(masked_imaging, plane, hyper_image_sky, hyper_background_noise) ==
    LET image == hyper_image_from_image_and_hyper_image_sky(
                     masked_imaging.image, hyper_image_sky)
        noise_map == hyper_noise_map_from_noise_map_plane_and_hyper_background_noise(
                         masked_imaging.noise_map, plane, hyper_background_noise)
        dataset == IF \/ plane_has_hyper_galaxy(plane)
                      \/ hyper_image_sky # None
                      \/ hyper_background_noise # None
                   THEN modify_image_and_noise_map(masked_imaging, image, noise_map)
                   ELSE masked_imaging
        blurred_profile_image ==
            blurred_profile_image_from_grid_and_convolver(
                plane, dataset.grid, dataset.convolver)
        profile_subtracted_image == ArraySub(image, blurred_profile_image)
        inversion == IF ~plane_has_pixelization(plane) THEN None
                     ELSE Inversion(profile_subtracted_image, noise_map)
    IN  [type |-> "FitImaging", plane |-> plane, masked_dataset |-> dataset,
         profile_model |-> blurred_profile_image,
         profile_subtracted |-> profile_subtracted_image,
         model_data |-> IF inversion = None THEN blurred_profile_image
                        ELSE ArrayAdd(blurred_profile_image,
                                      inversion.mapped_reconstructed_image),
         inversion |-> inversion]

\* FitInterferometer(masked_interferometer, plane, hyper_background_noise)
FitInterferometerInit(masked_interferometer, plane, hyper_background_noise) ==
    LET noise_map == IF hyper_background_noise # None
                     THEN hyper_noise_map_from_noise_map(
                              hyper_background_noise, masked_interferometer.noise_map)
                     ELSE masked_interferometer.noise_map
        dataset == IF hyper_background_noise # None
                   THEN interferometer_modify_image_and_noise_map(
                            masked_interferometer, noise_map)
                   ELSE masked_interferometer
        profile_visibilities ==
            profile_visibilities_from_grid_and_transformer(
                plane, dataset.grid, dataset.transformer)
        profile_subtracted_visibilities ==
            ArraySub(dataset.visibilities, profile_visibilities)
        inversion == IF ~plane_has_pixelization(plane) THEN None
                     ELSE Inversion(profile_subtracted_visibilities, noise_map)
    IN  [type |-> "FitInterferometer", plane |-> plane, masked_dataset |-> dataset,
         profile_model |-> profile_visibilities,
         profile_subtracted |-> profile_subtracted_visibilities,
         model_data |-> IF inversion = None THEN profile_visibilities
                        ELSE ArrayAdd(profile_visibilities,
                                      inversion.mapped_reconstructed_visibilities),
         inversion |-> inversion]

\* fit.galaxy_model_image_dict of a FitImaging: the inversion's
\* reconstruction is read whether or not there is an inversion
FitImaging_galaxy_model_image_dict(self) ==
    LET galaxy_model_image_dict ==
            galaxy_blurred_profile_image_dict_from_grid_and_convolver(
                self.plane, self.masked_dataset.grid, self.masked_dataset.convolver)
    IN  IF self.inversion = None
        THEN [raised |-> "AttributeError", result |-> None]
        ELSE [raised |-> "None",
              result |-> [type |-> "dict",
                          items |-> GalaxyDictUpdate(galaxy_model_image_dict,
                              self.plane.galaxies[1],
                              self.inversion.mapped_reconstructed_image)]]

\* fit.galaxy_model_image_dict of a FitInterferometer: the reconstruction is
\* read once per galaxy with a pixelization
FitInterferometer_galaxy_model_image_dict(self) ==
    LET galaxy_model_image_dict ==
            galaxy_profile_image_dict_from_grid(self.plane, self.masked_dataset.grid)
    IN  IF galaxy_indexes_with_pixelizations(self.plane) = <<>>
        THEN [raised |-> "None",
              result |-> [type |-> "dict", items |-> galaxy_model_image_dict]]
        ELSE [raised |-> "None",
              result |-> [type |-> "dict",
                          items |-> GalaxyDictUpdate(galaxy_model_image_dict,
                              self.plane.galaxies[1],
                              self.inversion.mapped_reconstructed_image)]]

galaxy_model_image_dict(self) ==
    IF self.type = "FitImaging" THEN FitImaging_galaxy_model_image_dict(self)
    ELSE FitInterferometer_galaxy_model_image_dict(self)

(***************************************************************************)
(* Inputs.                                                                 *)
(***************************************************************************)
Redshifts == {PyFloat(1), PyFloat(2)}

Pixelizations == {None, Rectangular(3)}

Regularizations == {None, Constant(1), Constant(2)}

\* every (pixelization, regularization) pair, and those the constructor accepts
Inversions == Pixelizations \X Regularizations

MatchedInversions == {pr \in Inversions : (pr[1] = None) <=> (pr[2] = None)}

LightProfiles == {EllipticalSersic(1), EllipticalSersic(2)}

Components == {EllipticalSersic(1), MassSheet(1), LightMassSersic(1, 2), PyFloat(7)}

Names == <<"light", "mass", "bulge">>

HyperImages == {NdArray(<<1, 2>>)}

\* keyword arguments named light, mass, bulge in that order
OrderedKwargs(comps) ==
    UNION {{[i \in 1..n |-> Entry(Names[i], vs[i])] : vs \in [1..n -> comps]} :
              n \in 0..MaxKwargs}

Bound(r) == galaxies[r] # None

(***************************************************************************)
(* Initial state: no galaxy yet; the hyper galaxies of the model exist.    *)
(***************************************************************************)
Init ==
    /\ galaxies = [r \in {"g1", "g2"} |-> None]
    /\ next_id = 0
    /\ hypers = <<HyperGalaxyInit(0, 0, 1, 0), HyperGalaxyInit(0, 0, 1, 1)>>
    /\ hyper_ids = 2
    /\ last = [op |-> "none"]

(***************************************************************************)
(* Actions.                                                                *)
(***************************************************************************)
\* r = Galaxy(redshift, pixelization, regularization, hyper_galaxy, **kwargs)
NewGalaxy(r, redshift, inversion, hyper_galaxy, kwargs) ==
    /\ ~Bound(r)
    /\ next_id < MaxIds
    /\ LET res == GalaxyInit(next_id, redshift, inversion[1], inversion[2],
                             hyper_galaxy, kwargs)
       IN  /\ galaxies' = IF res.raised = "None"
                           THEN [galaxies EXCEPT ![r] = res.self]
                           ELSE galaxies
           /\ last' = IF res.raised = "None"
                       THEN [op |-> "Galaxy", ref |-> r, ids |-> next_id,
                             pixelization |-> inversion[1],
                             regularization |-> inversion[2],
                             raised |-> res.raised, kwargs |-> kwargs]
                       ELSE [op |-> "Galaxy", ref |-> r, ids |-> next_id,
                             pixelization |-> inversion[1],
                             regularization |-> inversion[2],
                             raised |-> res.raised]
    /\ next_id' = next_id + 1
    /\ UNCHANGED <<hypers, hyper_ids>>

\* galaxies[a] == galaxies[b]
EqOp(a, b) ==
    /\ Bound(a)
    /\ LET res == GalaxyEq(galaxies[a], galaxies[b])
       IN  last' = [op |-> "__eq__", self |-> a, other |-> b,
                    raised |-> res.raised, result |-> res.result]
    /\ UNCHANGED <<galaxies, next_id, hypers, hyper_ids>>

\* hash(galaxies[r])
HashOp(r) ==
    /\ Bound(r)
    /\ last' = [op |-> "__hash__", self |-> r, result |-> hash(galaxies[r])]
    /\ UNCHANGED <<galaxies, next_id, hypers, hyper_ids>>

\* the fitting process stores the hyper images of an earlier phase on a galaxy
SetHyperImages(r, model_image, galaxy_image) ==
    /\ Bound(r)
    /\ galaxies' = [galaxies EXCEPT ![r] =
            SetAttr(SetAttr(SetAttr(galaxies[r],
                "hyper_model_image_1d", model_image),
                "hyper_galaxy_image_1d", galaxy_image),
                "binned_hyper_galaxy_image_1d", galaxy_image)]
    /\ last' = [op |-> "set_hyper_images", self |-> r]
    /\ UNCHANGED <<next_id, hypers, hyper_ids>>

\* galaxies[r].profile_image_from_grid(grid)
ProfileImageFromGridOp(r, grid) ==
    /\ Bound(r)
    /\ LET res == profile_image_from_grid(galaxies[r], grid)
       IN  last' = [op |-> "profile_image_from_grid", self |-> r, grid |-> grid,
                    raised |-> res.raised, result |-> res.result]
    /\ UNCHANGED <<galaxies, next_id, hypers, hyper_ids>>

\* galaxies[r].convergence_from_grid(grid)
ConvergenceFromGridOp(r, grid) ==
    /\ Bound(r)
    /\ LET res == convergence_from_grid(galaxies[r], grid)
       IN  last' = [op |-> "convergence_from_grid", self |-> r, grid |-> grid,
                    raised |-> res.raised, result |-> res.result]
    /\ UNCHANGED <<galaxies, next_id, hypers, hyper_ids>>

\* galaxies[r].potential_from_grid(grid)
PotentialFromGridOp(r, grid) ==
    /\ Bound(r)
    /\ LET res == potential_from_grid(galaxies[r], grid)
       IN  last' = [op |-> "potential_from_grid", self |-> r, grid |-> grid,
                    raised |-> res.raised, result |-> res.result]
    /\ UNCHANGED <<galaxies, next_id, hypers, hyper_ids>>

\* galaxies[r].deflections_from_grid(grid)
DeflectionsFromGridOp(r, grid) ==
    /\ Bound(r)
    /\ LET res == deflections_from_grid(galaxies[r], grid)
       IN  last' = [op |-> "deflections_from_grid", self |-> r, grid |-> grid,
                    raised |-> res.raised, result |-> res.result]
    /\ UNCHANGED <<galaxies, next_id, hypers, hyper_ids>>

\* galaxies[r].luminosity_within_circle_in_units(radius)
LuminosityWithinCircleInUnitsOp(r, radius) ==
    /\ Bound(r)
    /\ last' = [op |-> "luminosity_within_circle_in_units", self |-> r, length |-> radius,
                result |-> luminosity_within_circle_in_units(galaxies[r], radius)]
    /\ UNCHANGED <<galaxies, next_id, hypers, hyper_ids>>

\* galaxies[r].luminosity_within_ellipse_in_units(major_axis)
LuminosityWithinEllipseInUnitsOp(r, major_axis) ==
    /\ Bound(r)
    /\ last' = [op |-> "luminosity_within_ellipse_in_units", self |-> r, length |-> major_axis,
                result |-> luminosity_within_ellipse_in_units(galaxies[r], major_axis)]
    /\ UNCHANGED <<galaxies, next_id, hypers, hyper_ids>>

\* galaxies[r].mass_within_circle_in_units(radius)
MassWithinCircleInUnitsOp(r, radius) ==
    /\ Bound(r)
    /\ last' = [op |-> "mass_within_circle_in_units", self |-> r, length |-> radius,
                result |-> mass_within_circle_in_units(galaxies[r], radius)]
    /\ UNCHANGED <<galaxies, next_id, hypers, hyper_ids>>

\* galaxies[r].mass_within_ellipse_in_units(major_axis)
MassWithinEllipseInUnitsOp(r, major_axis) ==
    /\ Bound(r)
    /\ last' = [op |-> "mass_within_ellipse_in_units", self |-> r, length |-> major_axis,
                result |-> mass_within_ellipse_in_units(galaxies[r], major_axis)]
    /\ UNCHANGED <<galaxies, next_id, hypers, hyper_ids>>

\* galaxies[r].einstein_radius_in_units()
EinsteinRadiusInUnitsOp(r) ==
    /\ Bound(r)
    /\ last' = [op |-> "einstein_radius_in_units", self |-> r,
                result |-> einstein_radius_in_units(galaxies[r])]
    /\ UNCHANGED <<galaxies, next_id, hypers, hyper_ids>>

\* galaxies[r].einstein_mass_in_units()
EinsteinMassInUnitsOp(r) ==
    /\ Bound(r)
    /\ last' = [op |-> "einstein_mass_in_units", self |-> r,
                result |-> einstein_mass_in_units(galaxies[r])]
    /\ UNCHANGED <<galaxies, next_id, hypers, hyper_ids>>

\* galaxies[r].light_profiles, .mass_profiles and the has_* properties
ProfilesOp(r) ==
    /\ Bound(r)
    /\ last' = [op |-> "profiles", self |-> r,
                light_profiles |-> light_profiles(galaxies[r]),
                mass_profiles |-> mass_profiles(galaxies[r]),
                has_light_profile |-> has_light_profile(galaxies[r]),
                has_mass_profile |-> has_mass_profile(galaxies[r]),
                has_profile |-> has_profile(galaxies[r])]
    /\ UNCHANGED <<galaxies, next_id, hypers, hyper_ids>>

\* HyperGalaxy(contribution_factor, noise_factor, noise_power)
NewHyperGalaxy(contribution_factor, noise_factor, noise_power) ==
    /\ Len(hypers) < MaxHyperGalaxies
    /\ hypers' = Append(hypers, HyperGalaxyInit(contribution_factor, noise_factor,
                                                noise_power, hyper_ids))
    /\ hyper_ids' = hyper_ids + 1
    /\ last' = [op |-> "HyperGalaxy", index |-> Len(hypers) + 1]
    /\ UNCHANGED <<galaxies, next_id>>

\* hypers[i] == other
HyperGalaxyEqOp(i, other) ==
    /\ i \in 1..Len(hypers)
    /\ last' = [op |-> "HyperGalaxy.__eq__", index |-> i, other |-> other,
                result |-> HyperGalaxyEq(hypers[i], other)]
    /\ UNCHANGED <<galaxies, next_id, hypers, hyper_ids>>

(***************************************************************************)
(* Spec: g1 and then g2 are constructed from arguments the constructor     *)
(* accepts, compared and collected in a plane.                             *)
(***************************************************************************)
NextRef == IF Bound("g1") THEN "g2" ELSE "g1"

\* each galaxy owns its own hyper galaxy: g1 the first, g2 the second
OwnHyperGalaxy(r) == IF r = "g1" THEN hypers[1] ELSE hypers[2]

Next ==
    \/ \E z \in Redshifts, pr \in MatchedInversions,
          hg \in {None, OwnHyperGalaxy(NextRef)},
          kw \in OrderedKwargs(LightProfiles) :
            NewGalaxy(NextRef, z, pr, hg, kw)
    \/ \E a, b \in {"g1", "g2"} : EqOp(a, b)

Spec == Init /\ [][Next]_vars

(***************************************************************************)
(* SpecGalaxy: one galaxy is constructed from any arguments, its hyper     *)
(* images are stored, and its profile lists and integrals are read.        *)
(***************************************************************************)
Lengths == {1, 2}

NextGalaxy ==
    \/ \E z \in Redshifts, pr \in Inversions, hg \in {None, hypers[1]},
          kw \in OrderedKwargs(Components) :
            NewGalaxy("g1", z, pr, hg, kw)
    \/ \E img \in HyperImages : SetHyperImages("g1", img, img)
    \/ ProfilesOp("g1")
    \/ \E radius \in Lengths : LuminosityWithinCircleInUnitsOp("g1", radius)
    \/ \E major_axis \in Lengths : LuminosityWithinEllipseInUnitsOp("g1", major_axis)
    \/ \E radius \in Lengths : MassWithinCircleInUnitsOp("g1", radius)
    \/ \E major_axis \in Lengths : MassWithinEllipseInUnitsOp("g1", major_axis)
    \/ EinsteinRadiusInUnitsOp("g1")
    \/ EinsteinMassInUnitsOp("g1")

SpecGalaxy == Init /\ [][NextGalaxy]_vars

(***************************************************************************)
(* SpecGrid: one galaxy is constructed and evaluated on grids.             *)
(***************************************************************************)
GridPoints == {<<0, 0>>, <<1, -1>>}

Grids == UNION {{Grid(pts) : pts \in [1..n -> GridPoints]} : n \in 0..MaxGridPoints}

NextGrid ==
    \/ \E z \in Redshifts, pr \in MatchedInversions,
          kw \in OrderedKwargs(Components) :
            NewGalaxy("g1", z, pr, None, kw)
    \/ \E grid \in Grids : ProfileImageFromGridOp("g1", grid)
    \/ \E grid \in Grids : ConvergenceFromGridOp("g1", grid)
    \/ \E grid \in Grids : PotentialFromGridOp("g1", grid)
    \/ \E grid \in Grids : DeflectionsFromGridOp("g1", grid)

SpecGrid == Init /\ [][NextGrid]_vars

(***************************************************************************)
(* SpecHash: galaxies are constructed, hashed and given hyper images.      *)
(***************************************************************************)
NextHash ==
    \/ \E z \in Redshifts, pr \in Inversions,
          kw \in OrderedKwargs({EllipticalSersic(1)}) :
            NewGalaxy(NextRef, z, pr, None, kw)
    \/ \E r \in {"g1", "g2"} : HashOp(r)
    \/ \E r \in {"g1", "g2"}, img \in HyperImages : SetHyperImages(r, img, img)

SpecHash == Init /\ [][NextHash]_vars

(***************************************************************************)
(* SpecHyper: hyper galaxies are constructed and compared.                 *)
(***************************************************************************)
InitHyper ==
    /\ galaxies = [r \in {"g1", "g2"} |-> None]
    /\ next_id = 0
    /\ hypers = <<>>
    /\ hyper_ids = 0
    /\ last = [op |-> "none"]

Factors == {0, 1}

Powers == {1, 2}

NotHyperGalaxies ==
    {None, PyFloat(0),
     [type |-> "Namespace", contribution_factor |-> 0, noise_factor |-> 0,
      noise_power |-> 1]}

NextHyper ==
    \/ \E cf \in Factors, nf \in Factors, power \in Powers :
            NewHyperGalaxy(cf, nf, power)
    \/ \E i \in 1..Len(hypers), j \in 1..Len(hypers) : HyperGalaxyEqOp(i, hypers[j])
    \/ \E i \in 1..Len(hypers), other \in NotHyperGalaxies : HyperGalaxyEqOp(i, other)

SpecHyper == InitHyper /\ [][NextHyper]_vars

(***************************************************************************)
(* SpecNoise: one hyper galaxy scales noise maps.                          *)
(***************************************************************************)
\* hypers[i].contribution_map_from_hyper_images(hyper_model_image, hyper_galaxy_image)
ContributionMapFromHyperImagesOp(i, hyper_model_image, hyper_galaxy_image) ==
    /\ i \in 1..Len(hypers)
    /\ last' = [op |-> "contribution_map_from_hyper_images", index |-> i,
                hyper_model_image |-> hyper_model_image,
                hyper_galaxy_image |-> hyper_galaxy_image,
                result |-> contribution_map_from_hyper_images(
                               hypers[i], hyper_model_image, hyper_galaxy_image)]
    /\ UNCHANGED <<galaxies, next_id, hypers, hyper_ids>>

\* hypers[i].hyper_noise_map_from_contribution_map(noise_map, contribution_map)
HyperNoiseMapFromContributionMapOp(i, noise_map, contribution_map) ==
    /\ i \in 1..Len(hypers)
    /\ last' = [op |-> "hyper_noise_map_from_contribution_map", index |-> i,
                noise_map |-> noise_map, contribution_map |-> contribution_map,
                result |-> hyper_noise_map_from_contribution_map(
                               hypers[i], noise_map, contribution_map)]
    /\ UNCHANGED <<galaxies, next_id, hypers, hyper_ids>>

\* hypers[i].hyper_noise_map_from_hyper_images_and_noise_map(...)
HyperNoiseMapFromHyperImagesAndNoiseMapOp(i, hyper_model_image, hyper_galaxy_image, noise_map) ==
    /\ i \in 1..Len(hypers)
    /\ last' = [op |-> "hyper_noise_map_from_hyper_images_and_noise_map",
                index |-> i,
                hyper_model_image |-> hyper_model_image,
                hyper_galaxy_image |-> hyper_galaxy_image,
                noise_map |-> noise_map,
                result |-> hyper_noise_map_from_hyper_images_and_noise_map(
                               hypers[i], hyper_model_image, hyper_galaxy_image,
                               noise_map)]
    /\ UNCHANGED <<galaxies, next_id, hypers, hyper_ids>>

\* (hyper_model_image, hyper_galaxy_image) at one pixel: the galaxy's image
\* is part of the model image
PixelPairs == {<<2, 1>>, <<1, 1>>, <<1, 0>>}

ContributionValues == {Frac(1, 2), Frac(1, 1)}

ImagePairs(n) ==
    {[model |-> NdArray([i \in 1..n |-> p[i][1]]),
      galaxy |-> NdArray([i \in 1..n |-> p[i][2]])] : p \in [1..n -> PixelPairs]}

NoiseMaps(n) == {NdArray([i \in 1..n |-> 1]), NdArray([i \in 1..n |-> i])}

ContributionMaps(n) == {NdFloat(elems) : elems \in [1..n -> ContributionValues]}

NextNoise ==
    \/ \E cf \in Factors, nf \in Factors, power \in Powers :
            Len(hypers) = 0 /\ NewHyperGalaxy(cf, nf, power)
    \/ \E n \in {1, MaxPixels} : \E images \in ImagePairs(n) :
            ContributionMapFromHyperImagesOp(1, images.model, images.galaxy)
    \/ \E n \in {1, MaxPixels} : \E noise \in NoiseMaps(n), cmap \in ContributionMaps(n) :
            HyperNoiseMapFromContributionMapOp(1, noise, cmap)
    \/ \E n \in {1, MaxPixels} : \E images \in ImagePairs(n), noise \in NoiseMaps(n) :
            HyperNoiseMapFromHyperImagesAndNoiseMapOp(1, images.model, images.galaxy,
                                                      noise)

SpecNoise == InitHyper /\ [][NextNoise]_vars

(***************************************************************************)
(* SpecLens: one galaxy of mass profiles and its lensing quantities on     *)
(* grids with a 2D layout.                                                 *)
(***************************************************************************)
\* the same call, had the method kept its grid on the galaxy
GridCall_KeepingTheGrid(r, name, grid, call) ==
    /\ Bound(r)
    /\ last' = With(call, LAMBDA returned :
                    [op |-> name, self |-> r, grid |-> grid,
                     raised |-> returned.raised, result |-> returned.result])
    /\ galaxies' = [galaxies EXCEPT ![r] = SetAttr(galaxies[r], "grid", grid)]
    /\ UNCHANGED <<next_id, hypers, hyper_ids>>

\* a method of galaxies[r] called with a grid returns or raises
GridCall(r, name, grid, call) ==
    /\ Bound(r)
    /\ last' = With(call, LAMBDA returned :
                    [op |-> name, self |-> r, grid |-> grid,
                     raised |-> returned.raised, result |-> returned.result])
    /\ UNCHANGED <<galaxies, next_id, hypers, hyper_ids>>

JacobianFromGridOp(r, grid) ==
    GridCall(r, "jacobian_from_grid", grid, jacobian_from_grid(galaxies[r], grid))

ConvergenceViaJacobianFromGridOp(r, grid) ==
    GridCall(r, "convergence_via_jacobian_from_grid", grid, convergence_via_jacobian_from_grid(galaxies[r], grid))

ShearViaJacobianFromGridOp(r, grid) ==
    GridCall(r, "shear_via_jacobian_from_grid", grid, shear_via_jacobian_from_grid(galaxies[r], grid))

TangentialEigenValueFromGridOp(r, grid) ==
    GridCall(r, "tangential_eigen_value_from_grid", grid, tangential_eigen_value_from_grid(galaxies[r], grid))

RadialEigenValueFromGridOp(r, grid) ==
    GridCall(r, "radial_eigen_value_from_grid", grid, radial_eigen_value_from_grid(galaxies[r], grid))

MagnificationFromGridOp(r, grid) ==
    GridCall(r, "magnification_from_grid", grid, magnification_from_grid(galaxies[r], grid))

TangentialCriticalCurveFromGridOp(r, grid) ==
    GridCall(r, "tangential_critical_curve_from_grid", grid, tangential_critical_curve_from_grid(galaxies[r], grid))

RadialCriticalCurveFromGridOp(r, grid) ==
    GridCall(r, "radial_critical_curve_from_grid", grid, radial_critical_curve_from_grid(galaxies[r], grid))

TangentialCausticFromGridOp(r, grid) ==
    GridCall(r, "tangential_caustic_from_grid", grid, tangential_caustic_from_grid(galaxies[r], grid))

RadialCausticFromGridOp(r, grid) ==
    GridCall(r, "radial_caustic_from_grid", grid, radial_caustic_from_grid(galaxies[r], grid))

CriticalCurvesFromGridOp(r, grid) ==
    GridCall(r, "critical_curves_from_grid", grid, critical_curves_from_grid(galaxies[r], grid))

CausticsFromGridOp(r, grid) ==
    GridCall(r, "caustics_from_grid", grid, caustics_from_grid(galaxies[r], grid))

\* the grid of the given shape with square pixels, y falling with the row
\* and x rising with the column
UniformGrid(shape_2d, pixel_scale) ==
    Grid2D(shape_2d,
           [i \in 1..(shape_2d[1] * shape_2d[2]) |->
               <<pixel_scale * (1 - ((i - 1) \div shape_2d[2])),
                 pixel_scale * (((i - 1) % shape_2d[2]) - 1)>>])

\* one column or as many as the longest side, so that shapes are square or not
LensGrids ==
    {UniformGrid(<<rows, columns>>, 2) : rows \in 1..MaxSide, columns \in {1, MaxSide}}

\* the keyword arguments of the lens galaxies: no mass, a sheet of no mass, a
\* sheet, an isothermal profile, both
LensKwargs ==
    {<<>>,
     <<Entry("sheet", MassSheet(0))>>,
     <<Entry("sheet", MassSheet(1))>>,
     <<Entry("mass", SphericalIsothermal(1))>>,
     <<Entry("mass", SphericalIsothermal(1)), Entry("sheet", MassSheet(1))>>}

NextLens ==
    \/ \E kw \in LensKwargs : NewGalaxy("g1", PyFloat(1), <<None, None>>, None, kw)
    \/ \E grid \in LensGrids : JacobianFromGridOp("g1", grid)
    \/ \E grid \in LensGrids : ConvergenceViaJacobianFromGridOp("g1", grid)
    \/ \E grid \in LensGrids : ShearViaJacobianFromGridOp("g1", grid)
    \/ \E grid \in LensGrids : TangentialEigenValueFromGridOp("g1", grid)
    \/ \E grid \in LensGrids : RadialEigenValueFromGridOp("g1", grid)
    \/ \E grid \in LensGrids : MagnificationFromGridOp("g1", grid)
    \/ \E grid \in LensGrids : TangentialCriticalCurveFromGridOp("g1", grid)
    \/ \E grid \in LensGrids : RadialCriticalCurveFromGridOp("g1", grid)
    \/ \E grid \in LensGrids : TangentialCausticFromGridOp("g1", grid)
    \/ \E grid \in LensGrids : RadialCausticFromGridOp("g1", grid)
    \/ \E grid \in LensGrids : CriticalCurvesFromGridOp("g1", grid)
    \/ \E grid \in LensGrids : CausticsFromGridOp("g1", grid)

SpecLens == Init /\ [][NextLens]_vars

(***************************************************************************)
(* SpecPure: one galaxy with a hyper galaxy and hyper images, and every    *)
(* method of the Galaxy and of its HyperGalaxy that only computes.         *)
(***************************************************************************)
PureKwargs ==
    {<<>>,
     <<Entry("bulge", LightMassSersic(1, 2))>>,
     <<Entry("light", EllipticalSersic(1)), Entry("mass", SphericalIsothermal(1))>>}

PureGrids == {UniformGrid(<<1, 2>>, 2), UniformGrid(<<3, 3>>, 2)}

NextPure ==
    \/ \E hg \in {None, hypers[1]}, kw \in PureKwargs :
            NewGalaxy("g1", PyFloat(1), <<None, None>>, hg, kw)
    \/ \E img \in HyperImages : SetHyperImages("g1", img, img)
    \/ \E grid \in PureGrids : ProfileImageFromGridOp("g1", grid)
    \/ \E grid \in PureGrids : ConvergenceFromGridOp("g1", grid)
    \/ \E grid \in PureGrids : PotentialFromGridOp("g1", grid)
    \/ \E grid \in PureGrids : DeflectionsFromGridOp("g1", grid)
    \/ \E grid \in PureGrids : JacobianFromGridOp("g1", grid)
    \/ \E grid \in PureGrids : ConvergenceViaJacobianFromGridOp("g1", grid)
    \/ \E grid \in PureGrids : ShearViaJacobianFromGridOp("g1", grid)
    \/ \E grid \in PureGrids : TangentialEigenValueFromGridOp("g1", grid)
    \/ \E grid \in PureGrids : RadialEigenValueFromGridOp("g1", grid)
    \/ \E grid \in PureGrids : MagnificationFromGridOp("g1", grid)
    \/ \E grid \in PureGrids : TangentialCriticalCurveFromGridOp("g1", grid)
    \/ \E grid \in PureGrids : RadialCriticalCurveFromGridOp("g1", grid)
    \/ \E grid \in PureGrids : TangentialCausticFromGridOp("g1", grid)
    \/ \E grid \in PureGrids : RadialCausticFromGridOp("g1", grid)
    \/ \E grid \in PureGrids : CriticalCurvesFromGridOp("g1", grid)
    \/ \E grid \in PureGrids : CausticsFromGridOp("g1", grid)
    \/ \E radius \in Lengths : LuminosityWithinCircleInUnitsOp("g1", radius)
    \/ \E major_axis \in Lengths : LuminosityWithinEllipseInUnitsOp("g1", major_axis)
    \/ \E radius \in Lengths : MassWithinCircleInUnitsOp("g1", radius)
    \/ \E major_axis \in Lengths : MassWithinEllipseInUnitsOp("g1", major_axis)
    \/ EinsteinRadiusInUnitsOp("g1")
    \/ EinsteinMassInUnitsOp("g1")
    \/ \E i \in 1..2 : \E images \in ImagePairs(1) :
            ContributionMapFromHyperImagesOp(i, images.model, images.galaxy)
    \/ \E i \in 1..2 : \E noise \in NoiseMaps(1), cmap \in ContributionMaps(1) :
            HyperNoiseMapFromContributionMapOp(i, noise, cmap)
    \/ \E i \in 1..2 : \E images \in ImagePairs(1), noise \in NoiseMaps(1) :
            HyperNoiseMapFromHyperImagesAndNoiseMapOp(i, images.model, images.galaxy,
                                                      noise)

SpecPure == Init /\ [][NextPure]_vars

(***************************************************************************)
(* Include: what a plot draws over its figure. The critical curves and     *)
(* caustics of an object are preloaded, or computed from the object.       *)
(***************************************************************************)
PyList(items) == [type |-> "list", items |-> items]

\* af.conf.instance.visualize_general.get("include", name, bool): the entry
\* of the configuration for an include flag
visualize_general_get(conf, attribute_name) == PyBool(conf[attribute_name])

\* Include.load_include(value, name)
load_include(conf, value, name) ==
    IF value = None THEN visualize_general_get(conf, name) ELSE value

\* Include.__init__(critical_curves, caustics, preloaded_critical_curves,
\* preload_caustics), read under the configuration conf
IncludeInit(conf, critical_curves, caustics, preloaded_critical_curves, preload_caustics) ==
    [type |-> "Include",
     critical_curves |-> load_include(conf, critical_curves, "critical_curves"),
     caustics |-> load_include(conf, caustics, "caustics"),
     preloaded_critical_curves |-> preloaded_critical_curves,
     preloaded_caustics |-> preload_caustics]

\* Include.new_include_with_preloaded_critical_curves_and_caustics
new_include_with_preloaded_critical_curves_and_caustics(self, preloaded_critical_curves, preloaded_caustics) ==
    [self EXCEPT !.preloaded_critical_curves = preloaded_critical_curves,
                 !.preloaded_caustics = preloaded_caustics]

\* lensing.LensingObject: an object with the outcome of reading its
\* critical_curves and its caustics, each a value or a raised exception
LensingObject(has_mass, critical_curves, caustics) ==
    [type |-> "LensingObject", has_mass_profile |-> has_mass,
     critical_curves |-> critical_curves, caustics |-> caustics]

\* isinstance(obj, lensing.LensingObject)
IsLensingObject(obj) == obj.type = "LensingObject"

\* what a call returned, raised and printed
Printed(call, messages) ==
    [raised |-> call.raised, result |-> call.result, printed |-> messages]

\* Include.critical_curves_from_obj(obj)
critical_curves_from_obj_Uncaught(self, obj) ==
    IF ~self.critical_curves.truth THEN Printed(Return(None), <<>>)
    ELSE IF self.preloaded_caustics # None
    THEN Printed(Return(self.preloaded_critical_curves), <<>>)
    ELSE IF IsLensingObject(obj) /\ obj.has_mass_profile
    THEN Printed(obj.critical_curves, <<>>)
    ELSE Printed(Return(None), <<>>)

critical_curves_from_obj(self, obj) ==
    IF ~self.critical_curves.truth THEN Printed(Return(None), <<>>)
    ELSE IF self.preloaded_caustics # None
    THEN Printed(Return(self.preloaded_critical_curves), <<>>)
    ELSE IF IsLensingObject(obj) /\ obj.has_mass_profile
    THEN IF obj.critical_curves.raised = "ValueError"
         THEN Printed(Return(None),
                <<"Critical curve could not be calculated due to an unphysical mass model">>)
         ELSE Printed(obj.critical_curves, <<>>)
    ELSE Printed(Return(None), <<>>)

\* Include.caustics_from_obj(obj)
caustics_from_obj(self, obj) ==
    IF ~self.caustics.truth THEN Printed(Return(None), <<>>)
    ELSE IF self.preloaded_caustics # None
    THEN Printed(Return(self.preloaded_caustics), <<>>)
    ELSE IF IsLensingObject(obj) /\ obj.has_mass_profile
    THEN IF obj.caustics.raised = "ValueError"
         THEN Printed(Return(None),
                <<"Caustics could not be calculated due to an unphysical mass model">>)
         ELSE Printed(obj.caustics, <<>>)
    ELSE Printed(Return(None), <<>>)

(***************************************************************************)
(* LensingPlotter: a plot is the base class's plot of the structure, the   *)
(* overlays of the lensing quantities, then the output of the figure. The  *)
(* plotter keeps whether its figure is open and the calls made on its      *)
(* collaborators (figure, scatterers, liners, output) by the last plot.    *)
(***************************************************************************)
Event(call, bypass_output, subplot_index) ==
    [call |-> call, bypass_output |-> bypass_output, subplot_index |-> subplot_index]

\* Plotter() and SubPlotter(): the figure is not open yet
PlotterInit(type) == [type |-> type, figure_open |-> FALSE, events |-> <<>>]

\* isinstance(self, SubPlotter)
IsSubPlotter(self) == self.type = "SubPlotter"

\* a call on a collaborator of the plotter; figure.open() and
\* open_subplot_figure() open the figure, figure.close() closes it
Do(self, call) ==
    [self EXCEPT !.events = Append(@, Event(call, FALSE, 0)),
                 !.figure_open = IF call = "figure.close" THEN FALSE
                                 ELSE IF call \in {"figure.open", "open_subplot_figure"}
                                 THEN TRUE ELSE @]

\* plotters.AbstractPlotter.plot_array, plot_grid, plot_rectangular_mapper
\* and plot_voronoi_mapper: the figure is opened and the structure drawn;
\* unless the output is bypassed the figure is output, and closed when the
\* plotter is not a SubPlotter
AbstractPlotter_plot(self, method, bypass_output) ==
    LET opened == Do(self, "figure.open")
        drawn == [opened EXCEPT !.events = Append(@, Event(method, bypass_output, 0))]
    IN  IF bypass_output THEN drawn
        ELSE IF IsSubPlotter(self) THEN Do(drawn, "output.to_figure")
        ELSE Do(Do(drawn, "output.to_figure"), "figure.close")

\* the overlays of a plot, each drawn when its argument is not None
DrawOverlays(self, kwargs) ==
    LET light == IF kwargs.light_profile_centres # None
                 THEN Do(self, "light_profile_centres_scatterer.scatter_grids") ELSE self
        mass == IF kwargs.mass_profile_centres # None
                THEN Do(light, "mass_profile_centres_scatterer.scatter_grids") ELSE light
        images == IF kwargs.multiple_images # None
                  THEN Do(mass, "multiple_images_scatterer.scatter_grids") ELSE mass
        critical == IF kwargs.critical_curves # None
                    THEN Do(images, "critical_curves_liner.draw_grids") ELSE images
    IN  IF kwargs.caustics # None
        THEN Do(critical, "caustics_liner.draw_grids") ELSE critical

\* self.output.to_figure(...), then self.figure.close() unless a SubPlotter
OutputAndClose(self) ==
    IF IsSubPlotter(self) THEN Do(self, "output.to_figure")
    ELSE Do(Do(self, "output.to_figure"), "figure.close")

\* LensingPlotter.plot_array(array, ..., light_profile_centres, ...)
plot_array(self, kwargs) ==
    OutputAndClose(DrawOverlays(
        AbstractPlotter_plot(self, "AbstractPlotter.plot_array", TRUE), kwargs))

\* LensingPlotter.plot_grid(grid, ..., light_profile_centres, ...)
plot_grid(self, kwargs) ==
    OutputAndClose(DrawOverlays(
        AbstractPlotter_plot(self, "AbstractPlotter.plot_grid", TRUE), kwargs))

\* LensingPlotter.plot_rectangular_mapper(mapper, ...): the base class is
\* called without bypass_output, which is then its default, off
plot_rectangular_mapper(self, kwargs) ==
    OutputAndClose(DrawOverlays(
        AbstractPlotter_plot(self, "AbstractPlotter.plot_rectangular_mapper", FALSE),
        kwargs))

\* LensingPlotter.plot_voronoi_mapper(mapper, ...)
plot_voronoi_mapper(self, kwargs) ==
    OutputAndClose(DrawOverlays(
        AbstractPlotter_plot(self, "AbstractPlotter.plot_voronoi_mapper", FALSE),
        kwargs))

\* the keyword arguments of a plot with no overlay
NoOverlays ==
    [light_profile_centres |-> None, mass_profile_centres |-> None,
     multiple_images |-> None, critical_curves |-> None, caustics |-> None]

\* plotter.setup_subplot(number_subplots, subplot_index)
setup_subplot(self, subplot_index) ==
    [self EXCEPT !.events = Append(@, Event("setup_subplot", FALSE, subplot_index))]

\* galaxy_data_array(galaxy_data, positions, include, plotter): the title is
\* chosen by the quantity the data holds, and the image plotted as an array
galaxy_data_array(galaxy_data, plotter) ==
    IF galaxy_data.use \in {"image", "convergence", "potential",
                            "deflections_y", "deflections_x"}
    THEN [raised |-> "None", plotter |-> plot_array(plotter, NoOverlays)]
    ELSE [raised |-> "PlottingException", plotter |-> plotter]

\* subplot_fit_galaxy(fit, positions, include, plotter), with the plotter a
\* SubPlotter; the panels of aa.plot.FitImaging plot an array each
subplot_fit_galaxy(fit, plotter) ==
    LET opened == Do(plotter, "open_subplot_figure")
        first == galaxy_data_array(fit.masked_galaxy_dataset, setup_subplot(opened, 1))
        second == plot_array(setup_subplot(first.plotter, 2), NoOverlays)
        third == plot_array(setup_subplot(second, 3), NoOverlays)
        fourth == plot_array(setup_subplot(third, 4), NoOverlays)
    IN  IF first.raised # "None" THEN first
        ELSE [raised |-> "None",
              plotter |-> Do(Do(fourth, "output.subplot_to_figure"), "figure.close")]

(***************************************************************************)
(* SpecFit: planes of galaxies are fitted to masked imaging and            *)
(* interferometer datasets, with and without hyper components, and the     *)
(* model images of the galaxies are read from the fits.                    *)
(***************************************************************************)
\* FitImaging(masked_imaging, plane, hyper_image_sky, hyper_background_noise)
FitImagingOp(masked_imaging, plane, hyper_image_sky, hyper_background_noise) ==
    /\ last' = [op |-> "FitImaging", masked_dataset |-> masked_imaging,
                plane |-> plane, hyper_image_sky |-> hyper_image_sky,
                hyper_background_noise |-> hyper_background_noise,
                fit |-> FitImagingInit(masked_imaging, plane, hyper_image_sky,
                                       hyper_background_noise)]
    /\ UNCHANGED <<galaxies, next_id, hypers, hyper_ids>>

\* FitInterferometer(masked_interferometer, plane, hyper_background_noise)
FitInterferometerOp(masked_interferometer, plane, hyper_background_noise) ==
    /\ last' = [op |-> "FitInterferometer", masked_dataset |-> masked_interferometer,
                plane |-> plane, hyper_image_sky |-> None,
                hyper_background_noise |-> hyper_background_noise,
                fit |-> FitInterferometerInit(masked_interferometer, plane,
                                              hyper_background_noise)]
    /\ UNCHANGED <<galaxies, next_id, hypers, hyper_ids>>

\* fit.galaxy_model_image_dict, of the fit made or read last
GalaxyModelImageDictOp ==
    /\ last.op \in {"FitImaging", "FitInterferometer", "galaxy_model_image_dict"}
    /\ last' = With(galaxy_model_image_dict(last.fit), LAMBDA returned :
                    [op |-> "galaxy_model_image_dict", fit |-> last.fit,
                     raised |-> returned.raised, result |-> returned.result])
    /\ UNCHANGED <<galaxies, next_id, hypers, hyper_ids>>

\* hyper_image_from_image_and_hyper_image_sky(image, hyper_image_sky)
HyperImageFromImageAndHyperImageSkyOp(image, hyper_image_sky) ==
    /\ last' = [op |-> "hyper_image_from_image_and_hyper_image_sky",
                image |-> image, hyper_image_sky |-> hyper_image_sky,
                result |-> hyper_image_from_image_and_hyper_image_sky(
                               image, hyper_image_sky)]
    /\ UNCHANGED <<galaxies, next_id, hypers, hyper_ids>>

\* hyper_noise_map_from_noise_map_plane_and_hyper_background_noise(...)
HyperNoiseMapFromNoiseMapPlaneAndHyperBackgroundNoiseOp(noise_map, plane, hyper_background_noise) ==
    /\ last' = [op |-> "hyper_noise_map_from_noise_map_plane_and_hyper_background_noise",
                noise_map |-> noise_map, plane |-> plane,
                hyper_background_noise |-> hyper_background_noise,
                result |-> hyper_noise_map_from_noise_map_plane_and_hyper_background_noise(
                               noise_map, plane, hyper_background_noise)]
    /\ UNCHANGED <<galaxies, next_id, hypers, hyper_ids>>

\* the galaxies of the planes: light only, light with a hyper galaxy, and a
\* pixelization with its regularization
LightGalaxy ==
    GalaxyInit(0, PyFloat(1), None, None, None,
               <<Entry("light", EllipticalSersic(1))>>).self

HyperLightGalaxy ==
    GalaxyInit(1, PyFloat(1), None, None, HyperGalaxyInit(0, 1, 2, 0),
               <<Entry("light", EllipticalSersic(2))>>).self

PixelizedGalaxy ==
    GalaxyInit(2, PyFloat(2), Rectangular(3), Constant(1), None, <<>>).self

FitPlanes ==
    {PlaneInit(gals) : gals \in {<<LightGalaxy>>, <<HyperLightGalaxy>>,
                                 <<PixelizedGalaxy>>,
                                 <<LightGalaxy, PixelizedGalaxy>>,
                                 <<PixelizedGalaxy, LightGalaxy>>,
                                 <<HyperLightGalaxy, PixelizedGalaxy>>}}

FitGrid == Grid(<<<<0, 0>>, <<1, -1>>>>)

FitData == {<<10, 9>>, <<7, 7>>}

FitNoiseMaps == {<<1, 2>>, <<3, 3>>}

MaskedImagings ==
    {MaskedImaging(image, noise_map, FitGrid, 2) :
        image \in FitData, noise_map \in FitNoiseMaps}

MaskedInterferometers ==
    {MaskedInterferometer(visibilities, noise_map, FitGrid, 1) :
        visibilities \in FitData, noise_map \in FitNoiseMaps}

HyperImageSkies == {None, HyperImageSky(1)}

HyperBackgroundNoises == {None, HyperBackgroundNoise(2)}

NextFit ==
    \/ \E masked_imaging \in MaskedImagings, plane \in FitPlanes,
          sky \in HyperImageSkies, background \in HyperBackgroundNoises :
            FitImagingOp(masked_imaging, plane, sky, background)
    \/ \E masked_interferometer \in MaskedInterferometers, plane \in FitPlanes,
          background \in HyperBackgroundNoises :
            FitInterferometerOp(masked_interferometer, plane, background)
    \/ GalaxyModelImageDictOp
    \/ \E image \in FitData, sky \in HyperImageSkies :
            HyperImageFromImageAndHyperImageSkyOp(image, sky)
    \/ \E noise_map \in FitNoiseMaps, plane \in FitPlanes,
          background \in HyperBackgroundNoises :
            HyperNoiseMapFromNoiseMapPlaneAndHyperBackgroundNoiseOp(
                noise_map, plane, background)

SpecFit == Init /\ [][NextFit]_vars

(***************************************************************************)
(* SpecPlot: includes are made, given preloaded curves and asked for the   *)
(* critical curves and caustics of objects; plotters are made and plot     *)
(* arrays, grids, mappers and the subplot of a galaxy fit.                 *)
(***************************************************************************)
IncludeOps ==
    {"Include", "new_include_with_preloaded_critical_curves_and_caustics",
     "critical_curves_from_obj", "caustics_from_obj"}

PlotOps ==
    {"Plotter", "plot_array", "plot_grid", "plot_rectangular_mapper",
     "plot_voronoi_mapper", "subplot_fit_galaxy"}

\* Include(critical_curves, caustics, preloaded_critical_curves, preload_caustics)
IncludeOp(conf, critical_curves, caustics, preloaded_critical_curves, preload_caustics) ==
    /\ last' = [op |-> "Include", conf |-> conf,
                critical_curves |-> critical_curves, caustics |-> caustics,
                preloaded_critical_curves |-> preloaded_critical_curves,
                preloaded_caustics |-> preload_caustics,
                include |-> IncludeInit(conf, critical_curves, caustics,
                                        preloaded_critical_curves, preload_caustics)]
    /\ UNCHANGED <<galaxies, next_id, hypers, hyper_ids>>

\* include.new_include_with_preloaded_critical_curves_and_caustics(...), on
\* the include made or used last
NewIncludeWithPreloadedOp(preloaded_critical_curves, preloaded_caustics) ==
    /\ last.op \in IncludeOps
    /\ last' = [op |-> "new_include_with_preloaded_critical_curves_and_caustics",
                self |-> last.include,
                preloaded_critical_curves |-> preloaded_critical_curves,
                preloaded_caustics |-> preloaded_caustics,
                include |-> new_include_with_preloaded_critical_curves_and_caustics(
                                last.include, preloaded_critical_curves,
                                preloaded_caustics)]
    /\ UNCHANGED <<galaxies, next_id, hypers, hyper_ids>>

\* include.critical_curves_from_obj(obj)
CriticalCurvesFromObjOp(obj) ==
    /\ last.op \in IncludeOps
    /\ last' = With(critical_curves_from_obj(last.include, obj), LAMBDA returned :
                    [op |-> "critical_curves_from_obj", include |-> last.include,
                     obj |-> obj, raised |-> returned.raised,
                     result |-> returned.result, printed |-> returned.printed])
    /\ UNCHANGED <<galaxies, next_id, hypers, hyper_ids>>

\* include.caustics_from_obj(obj)
CausticsFromObjOp(obj) ==
    /\ last.op \in IncludeOps
    /\ last' = With(caustics_from_obj(last.include, obj), LAMBDA returned :
                    [op |-> "caustics_from_obj", include |-> last.include,
                     obj |-> obj, raised |-> returned.raised,
                     result |-> returned.result, printed |-> returned.printed])
    /\ UNCHANGED <<galaxies, next_id, hypers, hyper_ids>>

\* Plotter() or SubPlotter()
PlotterOp(type) ==
    /\ last' = [op |-> "Plotter", plotter |-> PlotterInit(type),
                figure_was_open |-> FALSE, kwargs |-> NoOverlays, raised |-> "None"]
    /\ UNCHANGED <<galaxies, next_id, hypers, hyper_ids>>

\* the plotter used last, before its next plot
LastPlotter == [last.plotter EXCEPT !.events = <<>>]

\* plotter.plot_array(array, ...)
PlotArrayOp(kwargs) ==
    /\ last.op \in PlotOps
    /\ last' = [op |-> "plot_array", plotter |-> plot_array(LastPlotter, kwargs),
                figure_was_open |-> last.plotter.figure_open, kwargs |-> kwargs,
                raised |-> "None"]
    /\ UNCHANGED <<galaxies, next_id, hypers, hyper_ids>>

\* plotter.plot_grid(grid, ...)
PlotGridOp(kwargs) ==
    /\ last.op \in PlotOps
    /\ last' = [op |-> "plot_grid", plotter |-> plot_grid(LastPlotter, kwargs),
                figure_was_open |-> last.plotter.figure_open, kwargs |-> kwargs,
                raised |-> "None"]
    /\ UNCHANGED <<galaxies, next_id, hypers, hyper_ids>>

\* plotter.plot_rectangular_mapper(mapper, ...)
PlotRectangularMapperOp(kwargs) ==
    /\ last.op \in PlotOps
    /\ last' = [op |-> "plot_rectangular_mapper",
                plotter |-> plot_rectangular_mapper(LastPlotter, kwargs),
                figure_was_open |-> last.plotter.figure_open, kwargs |-> kwargs,
                raised |-> "None"]
    /\ UNCHANGED <<galaxies, next_id, hypers, hyper_ids>>

\* plotter.plot_voronoi_mapper(mapper, ...)
PlotVoronoiMapperOp(kwargs) ==
    /\ last.op \in PlotOps
    /\ last' = [op |-> "plot_voronoi_mapper",
                plotter |-> plot_voronoi_mapper(LastPlotter, kwargs),
                figure_was_open |-> last.plotter.figure_open, kwargs |-> kwargs,
                raised |-> "None"]
    /\ UNCHANGED <<galaxies, next_id, hypers, hyper_ids>>

\* subplot_fit_galaxy(fit, plotter=sub_plotter)
SubplotFitGalaxyOp(fit) ==
    /\ last.op \in PlotOps
    /\ IsSubPlotter(last.plotter)
    /\ last' = With(subplot_fit_galaxy(fit, LastPlotter), LAMBDA returned :
                    [op |-> "subplot_fit_galaxy", plotter |-> returned.plotter,
                     figure_was_open |-> last.plotter.figure_open,
                     kwargs |-> NoOverlays, raised |-> returned.raised])
    /\ UNCHANGED <<galaxies, next_id, hypers, hyper_ids>>

\* the configured include flags
IncludeConfs ==
    {[critical_curves |-> TRUE, caustics |-> TRUE],
     [critical_curves |-> FALSE, caustics |-> TRUE]}

IncludeFlags == {None, PyBool(TRUE), PyBool(FALSE)}

PreloadedCriticalCurves == {None, PyList(<<<<1, 0>>>>)}

PreloadedCaustics == {None, PyList(<<<<0, 1>>>>)}

\* what reading obj.critical_curves or obj.caustics comes to
Unphysical == [raised |-> "ValueError", result |-> None]

PlotObjects ==
    {LightGalaxy,
     LensingObject(FALSE, Return(EmptyList), Return(EmptyList)),
     LensingObject(TRUE, Return(PyList(<<<<2, 2>>>>)), Return(PyList(<<<<3, 3>>>>))),
     LensingObject(TRUE, Unphysical, Unphysical),
     LensingObject(TRUE, Return(PyList(<<<<2, 2>>>>)), Unphysical),
     LensingObject(TRUE, [raised |-> "IndexError", result |-> None],
                   Return(EmptyList))}

Overlay == {None, PyList(<<<<1, 1>>>>)}

PlotKwargs ==
    [light_profile_centres : Overlay, mass_profile_centres : Overlay,
     multiple_images : Overlay, critical_curves : Overlay, caustics : Overlay]

\* fits of galaxy data holding an image, a convergence, or nothing to plot
GalaxyFits ==
    {[masked_galaxy_dataset |-> [use |-> use]] : use \in {"image", "convergence", "none"}}

NextPlot ==
    \/ \E conf \in IncludeConfs, critical_curves \in IncludeFlags,
          caustics \in IncludeFlags,
          preloaded_critical_curves \in PreloadedCriticalCurves,
          preload_caustics \in PreloadedCaustics :
            IncludeOp(conf, critical_curves, caustics, preloaded_critical_curves,
                      preload_caustics)
    \/ \E preloaded_critical_curves \in PreloadedCriticalCurves,
          preloaded_caustics \in PreloadedCaustics :
            NewIncludeWithPreloadedOp(preloaded_critical_curves, preloaded_caustics)
    \/ \E obj \in PlotObjects : CriticalCurvesFromObjOp(obj)
    \/ \E obj \in PlotObjects : CausticsFromObjOp(obj)
    \/ \E type \in {"Plotter", "SubPlotter"} : PlotterOp(type)
    \/ \E kwargs \in PlotKwargs : PlotArrayOp(kwargs)
    \/ \E kwargs \in PlotKwargs : PlotGridOp(kwargs)
    \/ \E kwargs \in PlotKwargs : PlotRectangularMapperOp(kwargs)
    \/ \E kwargs \in PlotKwargs : PlotVoronoiMapperOp(kwargs)
    \/ \E fit \in GalaxyFits : SubplotFitGalaxyOp(fit)

SpecPlot == Init /\ [][NextPlot]_vars

(***************************************************************************)
(* Helpers of the properties.                                              *)
(***************************************************************************)
RECURSIVE SumInts(_)
SumInts(ns) == IF ns = <<>> THEN 0 ELSE Head(ns) + SumInts(Tail(ns))

\* what each attached value of capability `classes` contributes, summed
SumOverAttached(self, classes, Contribution(_)) ==
    SumInts([j \in 1..Len(self.dict) |->
        IF self.dict[j].value.type \in classes
        THEN Contribution(self.dict[j].value) ELSE 0])

NoneAttached(self, classes) ==
    \A j \in 1..Len(self.dict) : self.dict[j].value.type \notin classes

\* the keyword components of a galaxy, in attachment order
FixedAttributes ==
    {"id", "redshift", "hyper_model_image_1d", "hyper_galaxy_image_1d",
     "binned_hyper_galaxy_image_1d", "pixelization", "regularization", "hyper_galaxy"}

KeywordValues(self) ==
    LET IsKeyword(e) == e.name \notin FixedAttributes
    IN  DictValues(SelectSeq(self.dict, IsKeyword))

AttachedOf(self, classes) ==
    LET Capable(v) == v.type \in classes
    IN  SelectSeq(KeywordValues(self), Capable)

ArgumentsOf(self) ==
    LET NotId(e) == e.name # "id"
    IN  SelectSeq(self.dict, NotId)

(***************************************************************************)
(* C1: constructing a Galaxy fails with GalaxyException exactly when one   *)
(* of pixelization and regularization is given without the other; with     *)
(* both or neither it succeeds and the galaxy holds the pair as given.     *)
(***************************************************************************)
C1_PixelizationNeedsRegularization ==
    last.op = "Galaxy" =>
        /\ last.raised \in {"None", "GalaxyException"}
        /\ (last.raised = "GalaxyException")
              <=> ((last.pixelization = None) # (last.regularization = None))
        /\ (last.raised = "None") =>
              /\ Bound(last.ref)
              /\ GetAttr(galaxies[last.ref], "pixelization") = last.pixelization
              /\ GetAttr(galaxies[last.ref], "regularization") = last.regularization
        /\ (last.raised # "None") => ~Bound(last.ref)

C1_Witness ==
    /\ last.op = "Galaxy"
    /\ last.raised = "GalaxyException"
    /\ last.pixelization = None
    /\ last.regularization # None

(***************************************************************************)
(* C2: with no light profile attached profile_image_from_grid returns      *)
(* exact zeros, one per grid point; with no mass profile attached          *)
(* convergence_from_grid and potential_from_grid return exact zeros and    *)
(* deflections_from_grid all-zero (y, x) pairs; none of the calls raises.  *)
(***************************************************************************)
C2_ZeroProfileFallback ==
    /\ (/\ last.op = "profile_image_from_grid"
        /\ NoneAttached(galaxies[last.self], LightProfileClasses)) =>
            /\ last.raised = "None"
            /\ last.result.in_1d = [i \in 1..Len(last.grid.points) |-> 0]
    /\ (/\ last.op \in {"convergence_from_grid", "potential_from_grid"}
        /\ NoneAttached(galaxies[last.self], MassProfileClasses)) =>
            /\ last.raised = "None"
            /\ last.result.in_1d = [i \in 1..Len(last.grid.points) |-> 0]
    /\ (/\ last.op = "deflections_from_grid"
        /\ NoneAttached(galaxies[last.self], MassProfileClasses)) =>
            /\ last.raised = "None"
            /\ last.result.in_1d = [i \in 1..Len(last.grid.points) |-> <<0, 0>>]

C2_Witness ==
    /\ last.op = "profile_image_from_grid"
    /\ NoneAttached(galaxies[last.self], LightProfileClasses)
    /\ ~NoneAttached(galaxies[last.self], MassProfileClasses)
    /\ Len(last.grid.points) = MaxGridPoints
    /\ last.raised = "None"

(***************************************************************************)
(* C3: with a profile of the kind attached, each grid quantity is, point   *)
(* by point, the sum over the attached profiles of that kind of the        *)
(* profile's own value there: each contributes once, nothing else does.    *)
(***************************************************************************)
C3_SumOverProfiles ==
    /\ (/\ last.op = "profile_image_from_grid"
        /\ ~NoneAttached(galaxies[last.self], LightProfileClasses)) =>
            /\ last.raised = "None"
            /\ Len(last.result.in_1d) = Len(last.grid.points)
            /\ \A i \in 1..Len(last.grid.points) :
                LET at(p) == LightProfileImage(p, Grid(<<last.grid.points[i]>>)).data[1]
                IN  last.result.in_1d[i]
                        = SumOverAttached(galaxies[last.self], LightProfileClasses, at)
    /\ (/\ last.op = "convergence_from_grid"
        /\ ~NoneAttached(galaxies[last.self], MassProfileClasses)) =>
            /\ last.raised = "None"
            /\ Len(last.result.in_1d) = Len(last.grid.points)
            /\ \A i \in 1..Len(last.grid.points) :
                LET at(p) == MassProfileConvergence(p, Grid(<<last.grid.points[i]>>)).data[1]
                IN  last.result.in_1d[i]
                        = SumOverAttached(galaxies[last.self], MassProfileClasses, at)
    /\ (/\ last.op = "potential_from_grid"
        /\ ~NoneAttached(galaxies[last.self], MassProfileClasses)) =>
            /\ last.raised = "None"
            /\ Len(last.result.in_1d) = Len(last.grid.points)
            /\ \A i \in 1..Len(last.grid.points) :
                LET at(p) == MassProfilePotential(p, Grid(<<last.grid.points[i]>>)).data[1]
                IN  last.result.in_1d[i]
                        = SumOverAttached(galaxies[last.self], MassProfileClasses, at)
    /\ (/\ last.op = "deflections_from_grid"
        /\ ~NoneAttached(galaxies[last.self], MassProfileClasses)) =>
            /\ last.raised = "None"
            /\ Len(last.result.in_1d) = Len(last.grid.points)
            /\ \A i \in 1..Len(last.grid.points) :
                LET y(p) == MassProfileDeflections(p, Grid(<<last.grid.points[i]>>)).rows[1][1]
                    x(p) == MassProfileDeflections(p, Grid(<<last.grid.points[i]>>)).rows[1][2]
                IN  last.result.in_1d[i]
                        = <<SumOverAttached(galaxies[last.self], MassProfileClasses, y),
                            SumOverAttached(galaxies[last.self], MassProfileClasses, x)>>

C3_Witness ==
    /\ last.op = "deflections_from_grid"
    /\ Len(mass_profiles(galaxies[last.self])) = 2
    /\ mass_profiles(galaxies[last.self])[1] # mass_profiles(galaxies[last.self])[2]
    /\ Len(last.grid.points) = MaxGridPoints
    /\ last.raised = "None"
    /\ \E i \in 1..Len(last.result.in_1d) : last.result.in_1d[i] # <<0, 0>>

(***************************************************************************)
(* C4: each integral method returns None, never 0.0, when the galaxy has   *)
(* no profile of the kind, and otherwise the sum of the per-profile        *)
(* results computed with the galaxy's own redshift as redshift_profile.    *)
(***************************************************************************)
IntegralIs(result, self, classes, Contribution(_)) ==
    IF NoneAttached(self, classes)
    THEN result = None /\ result # PyFloat(0)
    ELSE result = PyFloat(SumOverAttached(self, classes, Contribution))

C4_IntegralsNoneOrSum ==
    LET self == galaxies[last.self]
        z == GetAttr(self, "redshift")
        lum_circle(p) == LightProfileLuminosityCircle(p, last.length, z).value
        lum_ellipse(p) == LightProfileLuminosityEllipse(p, last.length, z).value
        mass_circle(p) == MassProfileMassCircle(p, last.length, z).value
        mass_ellipse(p) == MassProfileMassEllipse(p, last.length, z).value
        einstein_radius(p) == MassProfileEinsteinRadius(p, z).value
        einstein_mass(p) == MassProfileEinsteinMass(p, z).value
    IN  /\ last.op = "luminosity_within_circle_in_units" =>
                IntegralIs(last.result, self, LightProfileClasses, lum_circle)
        /\ last.op = "luminosity_within_ellipse_in_units" =>
                IntegralIs(last.result, self, LightProfileClasses, lum_ellipse)
        /\ last.op = "mass_within_circle_in_units" =>
                IntegralIs(last.result, self, MassProfileClasses, mass_circle)
        /\ last.op = "mass_within_ellipse_in_units" =>
                IntegralIs(last.result, self, MassProfileClasses, mass_ellipse)
        /\ last.op = "einstein_radius_in_units" =>
                IntegralIs(last.result, self, MassProfileClasses, einstein_radius)
        /\ last.op = "einstein_mass_in_units" =>
                IntegralIs(last.result, self, MassProfileClasses, einstein_mass)

C4_Witness ==
    /\ last.op = "mass_within_circle_in_units"
    /\ NoneAttached(galaxies[last.self], MassProfileClasses)
    /\ NoneAttached(galaxies[last.self], LightProfileClasses)
    /\ last.result = None

(***************************************************************************)
(* C5 (as claimed): == on two galaxies is true exactly when redshift,      *)
(* pixelization, regularization, hyper_galaxy and the ordered lists of     *)
(* light and of mass profiles are all equal by value.                      *)
(***************************************************************************)
AllFieldsEqual(self, other) ==
    /\ PyEq(GetAttr(self, "redshift"), GetAttr(other, "redshift"))
    /\ PyEq(GetAttr(self, "pixelization"), GetAttr(other, "pixelization"))
    /\ PyEq(GetAttr(self, "regularization"), GetAttr(other, "regularization"))
    /\ PyEq(GetAttr(self, "hyper_galaxy"), GetAttr(other, "hyper_galaxy"))
    /\ AttachedOf(self, LightProfileClasses) = AttachedOf(other, LightProfileClasses)
    /\ AttachedOf(self, MassProfileClasses) = AttachedOf(other, MassProfileClasses)

C5_EqualIffAllFieldsEqual ==
    (last.op = "__eq__" /\ Bound(last.other)) =>
        /\ last.raised = "None"
        /\ last.result <=> AllFieldsEqual(galaxies[last.self], galaxies[last.other])

(***************************************************************************)
(* C6: == on galaxies is reflexive and symmetric, and two galaxies built   *)
(* from identical arguments are equal.                                     *)
(***************************************************************************)
C6_EqReflexiveSymmetric ==
    (last.op = "__eq__" /\ Bound(last.other)) =>
        /\ last.raised = "None"
        /\ (last.self = last.other) => last.result
        /\ last.result = GalaxyEq(galaxies[last.other], galaxies[last.self]).result
        /\ (ArgumentsOf(galaxies[last.self]) = ArgumentsOf(galaxies[last.other]))
              => last.result

C6_Witness ==
    /\ last.op = "__eq__"
    /\ last.self # last.other
    /\ Bound(last.other)
    /\ ArgumentsOf(galaxies[last.self]) = ArgumentsOf(galaxies[last.other])
    /\ Len(light_profiles(galaxies[last.self])) = 2
    /\ GetAttr(galaxies[last.self], "pixelization") # None
    /\ last.result

(***************************************************************************)
(* C7: a galaxy's hash is the identity drawn for it at construction, two   *)
(* galaxies never share a hash even when they are equal by value, and      *)
(* storing hyper images on a galaxy leaves its hash unchanged.             *)
(***************************************************************************)
C7_HashIsConstructionIdentity ==
    [][/\ (last'.op = "Galaxy" /\ last'.raised = "None") =>
              hash(galaxies'[last'.ref]) = next_id
       /\ \A r \in {"g1", "g2"} :
              Bound(r) => (Bound(r)' /\ hash(galaxies'[r]) = hash(galaxies[r]))
       /\ (Bound("g1")' /\ Bound("g2")') =>
              hash(galaxies'["g1"]) # hash(galaxies'["g2"])
       /\ last'.op = "__hash__" => last'.result = hash(galaxies[last'.self])
      ]_vars

C7_Witness ==
    /\ last.op = "__hash__"
    /\ last.self = "g1"
    /\ Bound("g2")
    /\ GalaxyEq(galaxies["g1"], galaxies["g2"]).result
    /\ GetAttr(galaxies["g1"], "hyper_model_image_1d") # None
    /\ GetAttr(galaxies["g2"], "hyper_model_image_1d") = None
    /\ last.result # hash(galaxies["g2"])

(***************************************************************************)
(* C8: light_profiles and mass_profiles are exactly the keyword            *)
(* components of the capability, in attachment order; no other attribute   *)
(* of the galaxy is in either list, and has_light_profile,                 *)
(* has_mass_profile, has_profile say whether the lists are non-empty.      *)
(***************************************************************************)
NotProfileTypes ==
    {"int", "float", "NoneType", "ndarray", "HyperGalaxy", "pix.Rectangular",
     "reg.Constant"}

C8_ProfileListsByCapability ==
    last.op = "profiles" =>
        /\ last.light_profiles = AttachedOf(galaxies[last.self], LightProfileClasses)
        /\ last.mass_profiles = AttachedOf(galaxies[last.self], MassProfileClasses)
        /\ \A i \in 1..Len(last.light_profiles) :
              last.light_profiles[i].type \notin NotProfileTypes
        /\ \A i \in 1..Len(last.mass_profiles) :
              last.mass_profiles[i].type \notin NotProfileTypes
        /\ last.has_light_profile <=> (last.light_profiles # <<>>)
        /\ last.has_mass_profile <=> (last.mass_profiles # <<>>)
        /\ last.has_profile <=> (last.light_profiles # <<>> \/ last.mass_profiles # <<>>)

C8_Witness ==
    /\ last.op = "profiles"
    /\ last.light_profiles = <<LightMassSersic(1, 2), EllipticalSersic(1)>>
    /\ last.mass_profiles = <<LightMassSersic(1, 2)>>
    /\ GetAttr(galaxies[last.self], "hyper_galaxy") # None
    /\ GetAttr(galaxies[last.self], "pixelization") # None
    /\ GetAttr(galaxies[last.self], "hyper_galaxy_image_1d") # None

(***************************************************************************)
(* C9, the constructor's part: every keyword component given to the        *)
(* constructor is the attribute of that name on the galaxy, with the value *)
(* given. The order of the galaxies in a collection is a property of       *)
(* Plane, which this development has no source for, and is not stated.     *)
(***************************************************************************)
C9_KeywordsAreAttributes ==
    (last.op = "Galaxy" /\ last.raised = "None") =>
        \A i \in 1..Len(last.kwargs) :
            /\ DictHas(galaxies[last.ref].dict, last.kwargs[i].name)
            /\ GetAttr(galaxies[last.ref], last.kwargs[i].name) = last.kwargs[i].value

C9_Witness ==
    /\ last.op = "Galaxy"
    /\ last.raised = "None"
    /\ Len(last.kwargs) = MaxKwargs
    /\ DictHas(galaxies[last.ref].dict, "light")

(***************************************************************************)
(* C10: hyper galaxy == other is true exactly when other is a HyperGalaxy  *)
(* with the same contribution_factor, noise_factor and noise_power;        *)
(* component_number plays no part.                                         *)
(***************************************************************************)
C10_HyperGalaxyEqByParameters ==
    last.op = "HyperGalaxy.__eq__" =>
        (last.result <=>
            /\ last.other.type = "HyperGalaxy"
            /\ last.other.contribution_factor = hypers[last.index].contribution_factor
            /\ last.other.noise_factor = hypers[last.index].noise_factor
            /\ last.other.noise_power = hypers[last.index].noise_power)

C10_Witness ==
    /\ last.op = "HyperGalaxy.__eq__"
    /\ last.other.type = "HyperGalaxy"
    /\ last.other.component_number < hypers[last.index].component_number
    /\ last.result

(***************************************************************************)
(* C11: component_number comes from one counter shared by all hyper        *)
(* galaxies: every instance has a number strictly greater than that of     *)
(* every instance constructed before it, whatever the parameters, so no    *)
(* two instances share a number.                                           *)
(***************************************************************************)
C11_ComponentNumberIncreasing ==
    /\ \A i \in 1..Len(hypers), j \in 1..Len(hypers) :
          i < j => hypers[i].component_number < hypers[j].component_number
    /\ \A i \in 1..Len(hypers) : hypers[i].component_number < hyper_ids
    /\ last.op = "HyperGalaxy" =>
          hypers[last.index].component_number = hyper_ids - 1

C11_Witness ==
    /\ last.op = "HyperGalaxy"
    /\ Len(hypers) = MaxHyperGalaxies
    /\ HyperGalaxyEq(hypers[1], hypers[Len(hypers)])
    /\ hypers[1].component_number < hypers[Len(hypers)].component_number

(***************************************************************************)
(* C12: for positive images and a non-negative contribution factor the     *)
(* contribution map is, element by element, the quotient                   *)
(* hyper_galaxy_image / (hyper_model_image + contribution_factor) divided  *)
(* by the largest such quotient; every element lies in [0, 1] and the      *)
(* largest element is exactly 1.                                           *)
(***************************************************************************)
PositiveImage(image) == \A i \in 1..Len(image.data) : image.data[i] > 0

C12_ContributionMapNormalised ==
    (/\ last.op = "contribution_map_from_hyper_images"
     /\ PositiveImage(last.hyper_model_image)
     /\ PositiveImage(last.hyper_galaxy_image)) =>
        LET g == last.hyper_galaxy_image.data
            m == last.hyper_model_image.data
            cf == hypers[last.index].contribution_factor
            r == last.result.elems
            \* the pixel of the largest quotient g / (m + cf)
            k == CHOOSE k \in 1..Len(g) :
                    \A j \in 1..Len(g) : g[j] * (m[k] + cf) <= g[k] * (m[j] + cf)
        IN  /\ Len(r) = Len(g)
            /\ \A i \in 1..Len(r) :
                  /\ r[i].den > 0
                  /\ r[i].num * (m[i] + cf) * g[k] = r[i].den * g[i] * (m[k] + cf)
                  /\ 0 <= r[i].num
                  /\ r[i].num <= r[i].den
            /\ \E i \in 1..Len(r) : r[i].num = 1 /\ r[i].den = 1

C12_Witness ==
    /\ last.op = "contribution_map_from_hyper_images"
    /\ PositiveImage(last.hyper_model_image)
    /\ PositiveImage(last.hyper_galaxy_image)
    /\ hypers[last.index].contribution_factor > 0
    /\ Len(last.result.elems) = MaxPixels
    /\ \E i \in 1..Len(last.result.elems) :
          0 < last.result.elems[i].num
          /\ last.result.elems[i].num < last.result.elems[i].den

(***************************************************************************)
(* C13: the scaled noise map is, element by element,                       *)
(* noise_factor * (noise_map * contribution_map) ^ noise_power; it is      *)
(* linear in noise_factor: with the same maps and power, twice the         *)
(* noise_factor gives exactly twice every element, and noise_factor = 0    *)
(* gives zeros.                                                             *)
(***************************************************************************)
C13_NoiseMapLinearInFactor ==
    last.op = "hyper_noise_map_from_contribution_map" =>
        LET self == hypers[last.index]
            twice == [self EXCEPT !.noise_factor = 2 * self.noise_factor]
            doubled == hyper_noise_map_from_contribution_map(
                           twice, last.noise_map, last.contribution_map)
            scaled(i) == FMul(Whole(last.noise_map.data[i]),
                              last.contribution_map.elems[i])
        IN  /\ Len(last.result.elems) = Len(last.noise_map.data)
            /\ \A i \in 1..Len(last.result.elems) :
                  /\ last.result.elems[i]
                        = FMul(Whole(self.noise_factor),
                               IF self.noise_power = 1 THEN scaled(i)
                               ELSE FMul(scaled(i), scaled(i)))
                  /\ doubled.elems[i] = FMul(Whole(2), last.result.elems[i])
                  /\ self.noise_factor = 0 => last.result.elems[i] = Whole(0)

C13_Witness ==
    /\ last.op = "hyper_noise_map_from_contribution_map"
    /\ hypers[last.index].noise_factor = 1
    /\ hypers[last.index].noise_power = 2
    /\ \E i \in 1..Len(last.result.elems) :
          last.result.elems[i] = Frac(1, 4)

(***************************************************************************)
(* Helpers of the lensing properties.                                      *)
(***************************************************************************)
\* the grid can be differentiated along both axes
Differentiable(grid) == grid.shape_2d[1] >= 2 /\ grid.shape_2d[2] >= 2

\* the derivative of the samples f with respect to the coordinates x at
\* position i: the difference quotient over the neighbours of i
Slope(f, x, i) ==
    LET before == IF i = 1 THEN 1 ELSE i - 1
        after == IF i = Len(f) THEN i ELSE i + 1
    IN  (f[after] - f[before]) \div (x[after] - x[before])

\* component k of a field of pairs along row r and along column c
AlongRow(shape_2d, field, k, r) ==
    [c \in 1..shape_2d[2] |-> field[Index2D(shape_2d, r, c)][k]]

AlongColumn(shape_2d, field, k, c) ==
    [r \in 1..shape_2d[1] |-> field[Index2D(shape_2d, r, c)][k]]

(***************************************************************************)
(* C18: on a grid of at least two rows and two columns the Jacobian is     *)
(* [[A11, A12], [A21, A22]] with A11 = 1 - d(alpha_x)/dx,                  *)
(* A12 = -d(alpha_x)/dy, A21 = -d(alpha_y)/dx, A22 = 1 - d(alpha_y)/dy of  *)
(* the galaxy's deflections (alpha_y, alpha_x), d/dx taken along a row     *)
(* with the x coordinates of the first row and d/dy along a column with    *)
(* the y coordinates of the first column; a grid that is too small to      *)
(* differentiate makes numpy raise IndexError.                             *)
(***************************************************************************)
C18_JacobianFromDeflections ==
    last.op = "jacobian_from_grid" =>
        LET grid == last.grid
            shape == grid.shape_2d
            alpha == deflections_from_grid(galaxies[last.self], grid).result.in_1d
            xs == AlongRow(shape, grid.points, 2, 1)
            ys == AlongColumn(shape, grid.points, 1, 1)
        IN  /\ ~Differentiable(grid) => last.raised = "IndexError"
            /\ Differentiable(grid) =>
                /\ last.raised = "None"
                /\ \A r \in 1..shape[1], c \in 1..shape[2] :
                    LET i == Index2D(shape, r, c)
                    IN  /\ last.result[1][1].in_1d[i]
                              = 1 - Slope(AlongRow(shape, alpha, 2, r), xs, c)
                        /\ last.result[1][2].in_1d[i]
                              = -Slope(AlongColumn(shape, alpha, 2, c), ys, r)
                        /\ last.result[2][1].in_1d[i]
                              = -Slope(AlongRow(shape, alpha, 1, r), xs, c)
                        /\ last.result[2][2].in_1d[i]
                              = 1 - Slope(AlongColumn(shape, alpha, 1, c), ys, r)

C18_Witness ==
    /\ last.op = "jacobian_from_grid"
    /\ last.raised = "None"
    /\ last.grid.shape_2d = <<2, MaxSide>>
    /\ last.result[1][1].in_1d[1] # last.result[1][1].in_1d[MaxSide]
    /\ last.result[1][2].in_1d[1] = -8
    /\ last.result[2][1].in_1d[1] = 8
    /\ last.result[2][2].in_1d[1] # last.result[1][1].in_1d[1]

(***************************************************************************)
(* C19: at every grid point the convergence via the Jacobian is            *)
(* 1 - 0.5 * (A11 + A22) and the shear via the Jacobian is                 *)
(* sqrt(g1^2 + g2^2) with g1 = 0.5 * (A22 - A11), g2 = -0.5 * (A12 + A21), *)
(* A11..A22 being the entries of jacobian_from_grid on the same grid; the  *)
(* shear is never negative.                                                *)
(***************************************************************************)
C19_ConvergenceAndShearViaJacobian ==
    (/\ last.op \in {"convergence_via_jacobian_from_grid",
                     "shear_via_jacobian_from_grid"}
     /\ Differentiable(last.grid)) =>
        LET a == jacobian_from_grid(galaxies[last.self], last.grid).result
        IN  /\ last.raised = "None"
            /\ Len(last.result.in_1d) = Len(last.grid.points)
            /\ \A i \in 1..Len(last.grid.points) :
                LET a11 == a[1][1].in_1d[i]
                    a12 == a[1][2].in_1d[i]
                    a21 == a[2][1].in_1d[i]
                    a22 == a[2][2].in_1d[i]
                    value == last.result.in_1d[i]
                IN  IF last.op = "convergence_via_jacobian_from_grid"
                    THEN 2 * (1 - value) = a11 + a22
                    ELSE /\ value >= 0
                         /\ 4 * value * value
                              = (a22 - a11) * (a22 - a11) + (a12 + a21) * (a12 + a21)

C19_Witness ==
    /\ last.op = "shear_via_jacobian_from_grid"
    /\ last.raised = "None"
    /\ last.grid.shape_2d = <<MaxSide, MaxSide>>
    /\ \E i \in 1..Len(last.result.in_1d) : last.result.in_1d[i] = 6
    /\ \E i \in 1..Len(last.result.in_1d) : last.result.in_1d[i] = 0

(***************************************************************************)
(* C20: at every grid point the tangential eigenvalue is 1 - kappa - gamma *)
(* and the radial eigenvalue 1 - kappa + gamma, kappa and gamma being the  *)
(* convergence and shear via the Jacobian on the same grid, not the        *)
(* convergence of the mass profiles.                                       *)
(***************************************************************************)
C20_EigenValuesFromJacobian ==
    (/\ last.op \in {"tangential_eigen_value_from_grid",
                     "radial_eigen_value_from_grid"}
     /\ Differentiable(last.grid)) =>
        LET kappa == convergence_via_jacobian_from_grid(
                         galaxies[last.self], last.grid).result.in_1d
            gamma == shear_via_jacobian_from_grid(
                         galaxies[last.self], last.grid).result.in_1d
        IN  /\ last.raised = "None"
            /\ Len(last.result.in_1d) = Len(last.grid.points)
            /\ \A i \in 1..Len(last.grid.points) :
                IF last.op = "tangential_eigen_value_from_grid"
                THEN last.result.in_1d[i] = 1 - kappa[i] - gamma[i]
                ELSE last.result.in_1d[i] = 1 - kappa[i] + gamma[i]

C20_Witness ==
    /\ last.op = "tangential_eigen_value_from_grid"
    /\ last.raised = "None"
    /\ last.grid.shape_2d = <<MaxSide, MaxSide>>
    /\ \E i \in 1..Len(last.result.in_1d) :
          /\ shear_via_jacobian_from_grid(
                 galaxies[last.self], last.grid).result.in_1d[i] > 0
          /\ convergence_via_jacobian_from_grid(
                 galaxies[last.self], last.grid).result.in_1d[i]
               # convergence_from_grid(
                     galaxies[last.self], last.grid).result.in_1d[i]

\* the eigenvalue field whose zero contour the critical curve named by op is
EigenValuesOf(op, self, grid) ==
    IF op \in {"tangential_critical_curve_from_grid", "tangential_caustic_from_grid"}
    THEN tangential_eigen_value_from_grid(self, grid).result.in_1d
    ELSE radial_eigen_value_from_grid(self, grid).result.in_1d

\* the field is on one side of zero everywhere
NoZeroCrossing(field) ==
    \/ \A i \in 1..Len(field) : field[i] > 0
    \/ \A i \in 1..Len(field) : field[i] <= 0

\* the coordinates, on the grid, of the pixel positions of a contour
ContourOnGrid(grid, contour) ==
    Grid([i \in 1..Len(contour) |->
            grid.points[contour[i][1] * grid.shape_2d[2] + contour[i][2] + 1]])

(***************************************************************************)
(* C14: the tangential (radial) critical curve is taken from the zero      *)
(* contours of the tangential (radial) eigenvalue field: without a         *)
(* zero-crossing the result is the empty list and nothing is raised;       *)
(* otherwise the result is the first contour the tracer returns, mapped    *)
(* to coordinates with the 2D shape of the field, whatever contours        *)
(* follow it.                                                              *)
(***************************************************************************)
C14_CriticalCurveIsFirstContour ==
    (/\ last.op \in {"tangential_critical_curve_from_grid",
                     "radial_critical_curve_from_grid"}
     /\ Differentiable(last.grid)) =>
        LET field == EigenValuesOf(last.op, galaxies[last.self], last.grid)
            contours == find_contours(last.grid.shape_2d, field, 0)
        IN  /\ last.raised = "None"
            /\ NoZeroCrossing(field) => last.result = EmptyList
            /\ contours = <<>> => last.result = EmptyList
            /\ contours # <<>> =>
                  last.result = ContourOnGrid(last.grid, contours[1])

C14_Witness ==
    /\ last.op = "tangential_critical_curve_from_grid"
    /\ last.raised = "None"
    /\ LET contours == find_contours(last.grid.shape_2d,
                           EigenValuesOf(last.op, galaxies[last.self], last.grid), 0)
       IN  /\ Len(contours) >= 2
           /\ contours[1] # contours[Len(contours)]
           /\ last.result = ContourOnGrid(last.grid, contours[1])
           /\ last.result # ContourOnGrid(last.grid, contours[Len(contours)])

(***************************************************************************)
(* C15: a caustic is its critical curve minus the galaxy's deflections at  *)
(* the points of the critical curve, point by point; an empty critical     *)
(* curve gives an empty caustic and nothing is raised;                     *)
(* critical_curves_from_grid and caustics_from_grid return the pair        *)
(* [tangential, radial].                                                   *)
(***************************************************************************)
C15_CausticIsDeflectedCriticalCurve ==
    (/\ last.op \in {"tangential_caustic_from_grid", "radial_caustic_from_grid",
                     "critical_curves_from_grid", "caustics_from_grid"}
     /\ Differentiable(last.grid)) =>
        LET self == galaxies[last.self]
            tangential_curve == tangential_critical_curve_from_grid(self, last.grid).result
            radial_curve == radial_critical_curve_from_grid(self, last.grid).result
            Deflected(curve) ==
                IF curve = EmptyList THEN EmptyList
                ELSE LET alpha == deflections_from_grid(self, curve).result.in_1d
                     IN  Grid([i \in 1..Len(curve.points) |->
                                 <<curve.points[i][1] - alpha[i][1],
                                   curve.points[i][2] - alpha[i][2]>>])
        IN  /\ last.raised = "None"
            /\ last.op = "tangential_caustic_from_grid" =>
                  last.result = Deflected(tangential_curve)
            /\ last.op = "radial_caustic_from_grid" =>
                  last.result = Deflected(radial_curve)
            /\ last.op = "critical_curves_from_grid" =>
                  last.result = <<tangential_curve, radial_curve>>
            /\ last.op = "caustics_from_grid" =>
                  last.result = <<Deflected(tangential_curve), Deflected(radial_curve)>>

C15_Witness ==
    /\ last.op = "caustics_from_grid"
    /\ last.raised = "None"
    /\ last.result[1] # EmptyList
    /\ last.result[2] # EmptyList
    /\ last.result[1] # last.result[2]
    /\ last.result[1] # tangential_critical_curve_from_grid(
                             galaxies[last.self], last.grid).result

\* the galaxy deflects nothing anywhere on the grid
ZeroDeflections(self, grid) ==
    \A i \in 1..Len(grid.points) :
        deflections_from_grid(self, grid).result.in_1d[i] = <<0, 0>>

\* every element of the array is the value
Everywhere(array, value) ==
    /\ Len(array.in_1d) > 0
    /\ \A i \in 1..Len(array.in_1d) : array.in_1d[i] = value

(***************************************************************************)
\* a call of a method that rests on the Jacobian, on a galaxy without mass
\* profiles or whose mass profiles deflect nothing on the grid
ZeroMassLensCall ==
    /\ last.op \in {"jacobian_from_grid", "tangential_eigen_value_from_grid",
                    "radial_eigen_value_from_grid",
                    "tangential_critical_curve_from_grid",
                    "radial_critical_curve_from_grid",
                    "tangential_caustic_from_grid", "radial_caustic_from_grid",
                    "critical_curves_from_grid", "caustics_from_grid"}
    /\ \/ ~has_mass_profile(galaxies[last.self])
       \/ ZeroDeflections(galaxies[last.self], last.grid)

\* the Jacobian is the identity, both eigenvalues are 1 everywhere, and the
\* critical curves and the caustics are empty; nothing is raised
IdentityLensResult ==
    /\ last.raised = "None"
    /\ last.op = "jacobian_from_grid" =>
          /\ Everywhere(last.result[1][1], 1)
          /\ Everywhere(last.result[1][2], 0)
          /\ Everywhere(last.result[2][1], 0)
          /\ Everywhere(last.result[2][2], 1)
    /\ last.op \in {"tangential_eigen_value_from_grid",
                    "radial_eigen_value_from_grid"} =>
          Everywhere(last.result, 1)
    /\ last.op \in {"tangential_critical_curve_from_grid",
                    "radial_critical_curve_from_grid",
                    "tangential_caustic_from_grid",
                    "radial_caustic_from_grid"} =>
          last.result = EmptyList
    /\ last.op \in {"critical_curves_from_grid", "caustics_from_grid"} =>
          last.result = <<EmptyList, EmptyList>>

(***************************************************************************)
(* C16 (as claimed): for a galaxy without mass profiles, or whose mass     *)
(* profiles deflect nothing, and any grid: the Jacobian is the identity at *)
(* every grid point, both eigenvalues are 1 everywhere, and the critical   *)
(* curves and the caustics are empty.                                      *)
(***************************************************************************)
C16_ZeroMassIsIdentityLensOnAnyGrid == ZeroMassLensCall => IdentityLensResult

(***************************************************************************)
(* C16 (amended): for such a galaxy, on a grid of at least two rows and    *)
(* two columns the Jacobian is the identity at every grid point, both      *)
(* eigenvalues are 1 everywhere, and the critical curves and the caustics  *)
(* are empty; on a grid of a single row or a single column each of these   *)
(* methods raises the IndexError of the finite difference instead.         *)
(***************************************************************************)
C16_ZeroMassIsIdentityLens ==
    ZeroMassLensCall =>
        IF Differentiable(last.grid) THEN IdentityLensResult
        ELSE last.raised = "IndexError"

C16_Witness ==
    /\ last.op = "jacobian_from_grid"
    /\ last.raised = "None"
    /\ last.grid.shape_2d = <<MaxSide, MaxSide>>
    /\ has_mass_profile(galaxies[last.self])
    /\ ZeroDeflections(galaxies[last.self], last.grid)
    /\ Everywhere(last.result[2][2], 1)

\* the methods of a Galaxy that take a grid, those that integrate, and the
\* noise-scaling methods of a HyperGalaxy
GridMethods ==
    {"profile_image_from_grid", "convergence_from_grid", "potential_from_grid",
     "deflections_from_grid", "jacobian_from_grid",
     "convergence_via_jacobian_from_grid", "shear_via_jacobian_from_grid",
     "tangential_eigen_value_from_grid", "radial_eigen_value_from_grid",
     "magnification_from_grid", "tangential_critical_curve_from_grid",
     "radial_critical_curve_from_grid", "tangential_caustic_from_grid",
     "radial_caustic_from_grid", "critical_curves_from_grid", "caustics_from_grid"}

IntegralMethods ==
    {"luminosity_within_circle_in_units", "luminosity_within_ellipse_in_units",
     "mass_within_circle_in_units", "mass_within_ellipse_in_units",
     "einstein_radius_in_units", "einstein_mass_in_units"}

NoiseMethods ==
    {"contribution_map_from_hyper_images", "hyper_noise_map_from_contribution_map",
     "hyper_noise_map_from_hyper_images_and_noise_map"}

\* what the grid method named op returns for the galaxy and the grid now
GridMethod(op, self, grid) ==
    CASE op = "profile_image_from_grid" -> profile_image_from_grid(self, grid)
      [] op = "convergence_from_grid" -> convergence_from_grid(self, grid)
      [] op = "potential_from_grid" -> potential_from_grid(self, grid)
      [] op = "deflections_from_grid" -> deflections_from_grid(self, grid)
      [] op = "jacobian_from_grid" -> jacobian_from_grid(self, grid)
      [] op = "convergence_via_jacobian_from_grid" ->
            convergence_via_jacobian_from_grid(self, grid)
      [] op = "shear_via_jacobian_from_grid" -> shear_via_jacobian_from_grid(self, grid)
      [] op = "tangential_eigen_value_from_grid" ->
            tangential_eigen_value_from_grid(self, grid)
      [] op = "radial_eigen_value_from_grid" -> radial_eigen_value_from_grid(self, grid)
      [] op = "magnification_from_grid" -> magnification_from_grid(self, grid)
      [] op = "tangential_critical_curve_from_grid" ->
            tangential_critical_curve_from_grid(self, grid)
      [] op = "radial_critical_curve_from_grid" ->
            radial_critical_curve_from_grid(self, grid)
      [] op = "tangential_caustic_from_grid" -> tangential_caustic_from_grid(self, grid)
      [] op = "radial_caustic_from_grid" -> radial_caustic_from_grid(self, grid)
      [] op = "critical_curves_from_grid" -> critical_curves_from_grid(self, grid)
      [] op = "caustics_from_grid" -> caustics_from_grid(self, grid)

IntegralMethod(op, self, call) ==
    CASE op = "luminosity_within_circle_in_units" ->
            luminosity_within_circle_in_units(self, call.length)
      [] op = "luminosity_within_ellipse_in_units" ->
            luminosity_within_ellipse_in_units(self, call.length)
      [] op = "mass_within_circle_in_units" ->
            mass_within_circle_in_units(self, call.length)
      [] op = "mass_within_ellipse_in_units" ->
            mass_within_ellipse_in_units(self, call.length)
      [] op = "einstein_radius_in_units" -> einstein_radius_in_units(self)
      [] op = "einstein_mass_in_units" -> einstein_mass_in_units(self)

NoiseMethod(op, self, call) ==
    CASE op = "contribution_map_from_hyper_images" ->
            contribution_map_from_hyper_images(
                self, call.hyper_model_image, call.hyper_galaxy_image)
      [] op = "hyper_noise_map_from_contribution_map" ->
            hyper_noise_map_from_contribution_map(
                self, call.noise_map, call.contribution_map)
      [] op = "hyper_noise_map_from_hyper_images_and_noise_map" ->
            hyper_noise_map_from_hyper_images_and_noise_map(
                self, call.hyper_model_image, call.hyper_galaxy_image, call.noise_map)

\* the call recorded in `last`, made once more in the present state, returns
\* (or raises) what it did
RepeatsItself ==
    /\ last.op \in GridMethods =>
          LET again == GridMethod(last.op, galaxies[last.self], last.grid)
          IN  again.raised = last.raised /\ again.result = last.result
    /\ last.op \in IntegralMethods =>
          IntegralMethod(last.op, galaxies[last.self], last) = last.result
    /\ last.op \in NoiseMethods =>
          NoiseMethod(last.op, hypers[last.index], last) = last.result

(***************************************************************************)
(* C17: a call of an aggregation or geometry method of a Galaxy (profile   *)
(* image, convergence, potential, deflections, Jacobian, eigenvalues,      *)
(* magnification, critical curves, caustics, integrals) or of a            *)
(* noise-scaling method of a HyperGalaxy leaves every galaxy (redshift,    *)
(* components, pixelization, regularization, hyper galaxy, hyper-image     *)
(* buffers), every hyper galaxy (three parameters, component_number) and   *)
(* both counters as they were, and the same call made again returns the    *)
(* same result.                                                            *)
(***************************************************************************)
C17_MethodsArePure ==
    /\ [][last'.op \in GridMethods \cup IntegralMethods \cup NoiseMethods =>
            /\ galaxies' = galaxies
            /\ hypers' = hypers
            /\ next_id' = next_id
            /\ hyper_ids' = hyper_ids]_vars
    /\ []RepeatsItself

C17_Witness ==
    /\ last.op = "caustics_from_grid"
    /\ last.raised = "None"
    /\ last.result[2] # EmptyList
    /\ GetAttr(galaxies[last.self], "hyper_galaxy") = hypers[1]
    /\ GetAttr(galaxies[last.self], "hyper_model_image_1d") # None
    /\ has_light_profile(galaxies[last.self])

\* the determinant of the Jacobian at grid point i
Determinant(a, i) ==
    a[1][1].in_1d[i] * a[2][2].in_1d[i] - a[1][2].in_1d[i] * a[2][1].in_1d[i]

(***************************************************************************)
(* C21: at every grid point the magnification is 1 / (A11*A22 - A12*A21)  *)
(* of the entries of jacobian_from_grid; where that determinant is zero    *)
(* nothing is raised and the returned field holds an infinite or undefined *)
(* value at the point.                                                     *)
(***************************************************************************)
C21_MagnificationIsInverseDeterminant ==
    (last.op = "magnification_from_grid" /\ Differentiable(last.grid)) =>
        LET a == jacobian_from_grid(galaxies[last.self], last.grid).result
        IN  /\ last.raised = "None"
            /\ Len(last.result.elems) = Len(last.grid.points)
            /\ \A i \in 1..Len(last.grid.points) :
                  IF Determinant(a, i) = 0
                  THEN ~IsFinite(last.result.elems[i])
                  ELSE /\ IsFinite(last.result.elems[i])
                       /\ last.result.elems[i].num * Determinant(a, i)
                            = last.result.elems[i].den

C21_Witness ==
    /\ last.op = "magnification_from_grid"
    /\ last.raised = "None"
    /\ has_mass_profile(galaxies[last.self])
    /\ LET a == jacobian_from_grid(galaxies[last.self], last.grid).result
       IN  \E i \in 1..Len(last.grid.points) :
              /\ Determinant(a, i) = 0
              /\ ~IsFinite(last.result.elems[i])

\* the galaxy contributes nothing: its image is zero wherever the model image
\* plus the contribution factor is not
AllZeroContribution(self, hyper_model_image, hyper_galaxy_image) ==
    \A i \in 1..Len(hyper_galaxy_image.data) :
        /\ hyper_galaxy_image.data[i] = 0
        /\ hyper_model_image.data[i] + self.contribution_factor # 0

(***************************************************************************)
(* C22: when hyper_galaxy_image / (hyper_model_image + contribution_factor)*)
(* has maximum zero, contribution_map_from_hyper_images returns a map      *)
(* whose every element is undefined (NaN), never a map of finite values in *)
(* [0, 1], and hyper_noise_map_from_hyper_images_and_noise_map returns a   *)
(* noise map whose every element is undefined as well.                     *)
(***************************************************************************)
C22_ZeroMaximumGivesUndefinedMap ==
    (/\ last.op \in {"contribution_map_from_hyper_images",
                     "hyper_noise_map_from_hyper_images_and_noise_map"}
     /\ AllZeroContribution(hypers[last.index], last.hyper_model_image,
                            last.hyper_galaxy_image)) =>
        /\ Len(last.result.elems) = Len(last.hyper_galaxy_image.data)
        /\ \A i \in 1..Len(last.result.elems) :
              /\ last.result.elems[i] = NaN
              /\ ~(/\ IsFinite(last.result.elems[i])
                   /\ FLeq(Whole(0), last.result.elems[i])
                   /\ FLeq(last.result.elems[i], Whole(1)))

C22_Witness ==
    /\ last.op = "hyper_noise_map_from_hyper_images_and_noise_map"
    /\ AllZeroContribution(hypers[last.index], last.hyper_model_image,
                           last.hyper_galaxy_image)
    /\ Len(last.result.elems) = MaxPixels
    /\ hypers[last.index].noise_factor = 0
    /\ last.result.elems[MaxPixels] = NaN

(***************************************************************************)
(* C27: at every grid point the tangential eigenvalue is at most the       *)
(* radial eigenvalue, their difference is twice the shear via the          *)
(* Jacobian, their sum is A11 + A22, and where A12 = A21 their product is  *)
(* the determinant A11*A22 - A12*A21 that magnification_from_grid inverts. *)
(***************************************************************************)
C27_EigenValuesOrderedAndComplete ==
    (/\ last.op \in {"tangential_eigen_value_from_grid",
                     "radial_eigen_value_from_grid"}
     /\ Differentiable(last.grid)) =>
        LET self == galaxies[last.self]
            a == jacobian_from_grid(self, last.grid).result
            gamma == shear_via_jacobian_from_grid(self, last.grid).result.in_1d
            mu == magnification_from_grid(self, last.grid).result.elems
            tangential == IF last.op = "tangential_eigen_value_from_grid"
                          THEN last.result.in_1d
                          ELSE tangential_eigen_value_from_grid(self, last.grid).result.in_1d
            radial == IF last.op = "radial_eigen_value_from_grid"
                      THEN last.result.in_1d
                      ELSE radial_eigen_value_from_grid(self, last.grid).result.in_1d
        IN  /\ last.raised = "None"
            /\ \A i \in 1..Len(last.grid.points) :
                  /\ tangential[i] <= radial[i]
                  /\ radial[i] - tangential[i] = 2 * gamma[i]
                  /\ tangential[i] + radial[i] = a[1][1].in_1d[i] + a[2][2].in_1d[i]
                  /\ a[1][2].in_1d[i] = a[2][1].in_1d[i] =>
                        /\ tangential[i] * radial[i] = Determinant(a, i)
                        /\ mu[i] = FDiv(Whole(1), Whole(tangential[i] * radial[i]))

C27_Witness ==
    /\ last.op = "radial_eigen_value_from_grid"
    /\ last.raised = "None"
    /\ last.grid.shape_2d = <<MaxSide, MaxSide>>
    /\ \E i \in 1..Len(last.result.in_1d) :
          last.result.in_1d[i]
            > tangential_eigen_value_from_grid(
                  galaxies[last.self], last.grid).result.in_1d[i]
    /\ \E i \in 1..Len(last.result.in_1d) :
          last.result.in_1d[i]
            = tangential_eigen_value_from_grid(
                  galaxies[last.self], last.grid).result.in_1d[i]

(***************************************************************************)
(* C25: a Galaxy compared with something that is not a Galaxy (None, a     *)
(* number, an object without the attributes of a Galaxy) returns False     *)
(* and raises nothing.                                                     *)
(***************************************************************************)
C25_EqWithNonGalaxyIsFalse ==
    (last.op = "__eq__" /\ galaxies[last.other].type # "Galaxy") =>
        /\ last.raised = "None"
        /\ last.result = FALSE

(***************************************************************************)
(* C28: hyper_noise_map_from_noise_map_plane_and_hyper_background_noise    *)
(* returns B + H: B is the noise map scaled by the hyper background noise  *)
(* when one is given and the noise map itself otherwise, H is the plane's  *)
(* hyper noise map of the unscaled noise map, added only when it is not    *)
(* None; with neither, the noise map is returned unchanged. And            *)
(* hyper_image_from_image_and_hyper_image_sky returns the image unchanged  *)
(* when hyper_image_sky is None.                                           *)
(***************************************************************************)
C28_HyperNoiseMapIsBackgroundPlusPlane ==
    /\ last.op = "hyper_noise_map_from_noise_map_plane_and_hyper_background_noise" =>
          LET H == plane_hyper_noise_map_from_noise_map(last.plane, last.noise_map)
              B(i) == IF last.hyper_background_noise # None
                      THEN last.noise_map[i] + last.hyper_background_noise.noise_scale
                      ELSE last.noise_map[i]
          IN  /\ Len(last.result) = Len(last.noise_map)
              /\ \A i \in 1..Len(last.noise_map) :
                    last.result[i] = IF H # None THEN B(i) + H[i] ELSE B(i)
              /\ (last.hyper_background_noise = None /\ H = None) =>
                    last.result = last.noise_map
    /\ (/\ last.op = "hyper_image_from_image_and_hyper_image_sky"
        /\ last.hyper_image_sky = None) => last.result = last.image

C28_Witness ==
    /\ last.op = "hyper_noise_map_from_noise_map_plane_and_hyper_background_noise"
    /\ last.hyper_background_noise # None
    /\ plane_has_hyper_galaxy(last.plane)
    /\ last.noise_map = <<1, 2>>
    /\ last.result = <<4, 8>>

\* the data a fit works on, its noise map and the profile model of its plane
FitData_Of(call) ==
    IF call.op = "FitImaging"
    THEN hyper_image_from_image_and_hyper_image_sky(
             call.masked_dataset.image, call.hyper_image_sky)
    ELSE call.masked_dataset.visibilities

FitNoiseMap_Of(call) ==
    IF call.op = "FitImaging"
    THEN hyper_noise_map_from_noise_map_plane_and_hyper_background_noise(
             call.masked_dataset.noise_map, call.plane, call.hyper_background_noise)
    ELSE IF call.hyper_background_noise # None
    THEN hyper_noise_map_from_noise_map(call.hyper_background_noise,
                                        call.masked_dataset.noise_map)
    ELSE call.masked_dataset.noise_map

FitProfileModel_Of(call) ==
    IF call.op = "FitImaging"
    THEN blurred_profile_image_from_grid_and_convolver(
             call.plane, call.masked_dataset.grid, call.masked_dataset.convolver)
    ELSE profile_visibilities_from_grid_and_transformer(
             call.plane, call.masked_dataset.grid, call.masked_dataset.transformer)

FitHasHyperComponent(call) ==
    IF call.op = "FitImaging"
    THEN \/ plane_has_hyper_galaxy(call.plane)
         \/ call.hyper_image_sky # None
         \/ call.hyper_background_noise # None
    ELSE call.hyper_background_noise # None

(***************************************************************************)
(* C29: a FitImaging or FitInterferometer, once constructed, has           *)
(* profile-subtracted data = (hyper-scaled) data - profile model of the    *)
(* plane; without a pixelization in the plane its inversion is None and    *)
(* its model data is the profile model; otherwise its inversion was fitted *)
(* to the profile-subtracted data with the hyper-scaled noise map and its  *)
(* model data is the profile model plus the inversion's mapped             *)
(* reconstruction. Its masked dataset is a modified copy exactly when a    *)
(* hyper component is present, and the dataset passed in otherwise.        *)
(***************************************************************************)
C29_FitConstruction ==
    last.op \in {"FitImaging", "FitInterferometer"} =>
        LET fit == last.fit
            reconstruction ==
                IF last.op = "FitImaging"
                THEN fit.inversion.mapped_reconstructed_image
                ELSE fit.inversion.mapped_reconstructed_visibilities
        IN  /\ fit.profile_model = FitProfileModel_Of(last)
            /\ \A i \in 1..Len(fit.profile_subtracted) :
                  fit.profile_subtracted[i]
                    = FitData_Of(last)[i] - FitProfileModel_Of(last)[i]
            /\ ~plane_has_pixelization(last.plane) =>
                  /\ fit.inversion = None
                  /\ fit.model_data = FitProfileModel_Of(last)
            /\ plane_has_pixelization(last.plane) =>
                  /\ fit.inversion # None
                  /\ fit.inversion.data = fit.profile_subtracted
                  /\ fit.inversion.noise_map = FitNoiseMap_Of(last)
                  /\ \A i \in 1..Len(fit.model_data) :
                        fit.model_data[i]
                          = FitProfileModel_Of(last)[i] + reconstruction[i]
            /\ fit.masked_dataset.modified <=> FitHasHyperComponent(last)
            /\ ~FitHasHyperComponent(last) => fit.masked_dataset = last.masked_dataset
            /\ (last.op = "FitImaging" /\ FitHasHyperComponent(last)) =>
                  /\ fit.masked_dataset.image = FitData_Of(last)
                  /\ fit.masked_dataset.noise_map = FitNoiseMap_Of(last)

C29_Witness ==
    /\ last.op = "FitImaging"
    /\ last.hyper_image_sky # None
    /\ last.hyper_background_noise # None
    /\ plane_has_hyper_galaxy(last.plane)
    /\ plane_has_pixelization(last.plane)
    /\ last.fit.masked_dataset.modified
    /\ last.fit.inversion.noise_map # last.masked_dataset.noise_map
    /\ last.fit.model_data # last.fit.profile_model

\* the galaxy's entry in a dict keyed by galaxies
HasKey(d, galaxy) == \E i \in 1..Len(d.items) : d.items[i].key = galaxy

(***************************************************************************)
(* C24: galaxy_model_image_dict of a FitImaging returns a dictionary with  *)
(* an entry for every galaxy of the plane and raises nothing; for a fit    *)
(* whose plane has no pixelization (inversion None) every galaxy is        *)
(* mapped to its blurred profile image.                                    *)
(***************************************************************************)
C24_GalaxyModelImageDict ==
    (last.op = "galaxy_model_image_dict" /\ last.fit.type = "FitImaging") =>
        LET plane == last.fit.plane
            dataset == last.fit.masked_dataset
        IN  /\ last.raised = "None"
            /\ \A i \in 1..Len(plane.galaxies) : HasKey(last.result, plane.galaxies[i])
            /\ last.fit.inversion = None =>
                  \A i \in 1..Len(last.result.items) :
                      last.result.items[i].value
                        = GalaxyBlurredProfileImage(last.result.items[i].key,
                                                    dataset.grid, dataset.convolver)


\* the include flag a curve method looks at, and what reading the curves of
\* the object comes to
FlagOn(call) ==
    IF call.op = "critical_curves_from_obj"
    THEN call.include.critical_curves.truth ELSE call.include.caustics.truth

HasCurves(obj) == IsLensingObject(obj) /\ obj.has_mass_profile

CurvesOf(call) ==
    IF call.op = "critical_curves_from_obj"
    THEN call.obj.critical_curves ELSE call.obj.caustics

UnphysicalMessage(call) ==
    IF call.op = "critical_curves_from_obj"
    THEN "Critical curve could not be calculated due to an unphysical mass model"
    ELSE "Caustics could not be calculated due to an unphysical mass model"

NothingPreloaded(include) ==
    /\ include.preloaded_critical_curves = None
    /\ include.preloaded_caustics = None

(***************************************************************************)
(* C23: critical_curves_from_obj and caustics_from_obj never let a         *)
(* ValueError of the object's curves out: it is caught, the 'unphysical    *)
(* mass model' message is printed and None returned. None is also returned *)
(* when the include flag is off, and, with nothing preloaded, when the     *)
(* object is not a lensing object or has no mass profile.                  *)
(***************************************************************************)
C23_ValueErrorIsCaughtAndNoneReturned ==
    last.op \in {"critical_curves_from_obj", "caustics_from_obj"} =>
        /\ last.raised # "ValueError"
        /\ (/\ FlagOn(last)
            /\ last.include.preloaded_caustics = None
            /\ HasCurves(last.obj)
            /\ CurvesOf(last).raised = "ValueError") =>
                /\ last.raised = "None"
                /\ last.result = None
                /\ last.printed = <<UnphysicalMessage(last)>>
        /\ ~FlagOn(last) =>
                /\ last.raised = "None"
                /\ last.result = None
                /\ last.printed = <<>>
        /\ (NothingPreloaded(last.include) /\ ~HasCurves(last.obj)) =>
                /\ last.raised = "None"
                /\ last.result = None
                /\ last.printed = <<>>

C23_Witness ==
    /\ last.op = "critical_curves_from_obj"
    /\ FlagOn(last)
    /\ NothingPreloaded(last.include)
    /\ HasCurves(last.obj)
    /\ last.obj.critical_curves.raised = "ValueError"
    /\ last.raised = "None"
    /\ last.result = None
    /\ Len(last.printed) = 1

\* the curves as computed from the object: what it gives, or None for a
\* caught ValueError or an object without curves
ComputedFromObj(call) ==
    IF ~HasCurves(call.obj) THEN Return(None)
    ELSE IF CurvesOf(call).raised = "ValueError" THEN Return(None)
    ELSE CurvesOf(call)

(***************************************************************************)
(* C26 (as claimed): with its flag on, critical_curves_from_obj returns    *)
(* the preloaded critical curves whenever they are set, whether or not     *)
(* caustics are preloaded, and computes from the object only when no       *)
(* critical curves are preloaded; caustics_from_obj returns the preloaded  *)
(* caustics whenever they are set.                                         *)
(***************************************************************************)
C26_PreloadedCurvesAreReturnedWhenSet ==
    /\ (last.op = "critical_curves_from_obj" /\ FlagOn(last)) =>
          IF last.include.preloaded_critical_curves # None
          THEN /\ last.raised = "None"
               /\ last.result = last.include.preloaded_critical_curves
          ELSE /\ last.raised = ComputedFromObj(last).raised
               /\ last.result = ComputedFromObj(last).result
    /\ (last.op = "caustics_from_obj" /\ FlagOn(last)) =>
          IF last.include.preloaded_caustics # None
          THEN /\ last.raised = "None"
               /\ last.result = last.include.preloaded_caustics
          ELSE /\ last.raised = ComputedFromObj(last).raised
               /\ last.result = ComputedFromObj(last).result

\* where in the calls of a plot a given call was made
Positions(events, call) == {i \in 1..Len(events) : events[i].call = call}

\* the overlays in the order of the plot: the argument and the call drawing it
OverlayCalls ==
    <<[arg |-> "light_profile_centres",
       call |-> "light_profile_centres_scatterer.scatter_grids"],
      [arg |-> "mass_profile_centres",
       call |-> "mass_profile_centres_scatterer.scatter_grids"],
      [arg |-> "multiple_images", call |-> "multiple_images_scatterer.scatter_grids"],
      [arg |-> "critical_curves", call |-> "critical_curves_liner.draw_grids"],
      [arg |-> "caustics", call |-> "caustics_liner.draw_grids"]>>

BasePlotOf(op) ==
    CASE op = "plot_array" -> "AbstractPlotter.plot_array"
      [] op = "plot_grid" -> "AbstractPlotter.plot_grid"
      [] op = "plot_rectangular_mapper" -> "AbstractPlotter.plot_rectangular_mapper"
      [] op = "plot_voronoi_mapper" -> "AbstractPlotter.plot_voronoi_mapper"

\* every call at a position of before is made before every call of after
Precede(before, after) == \A i \in before, j \in after : i < j

(***************************************************************************)
(* C30 (as claimed): plot_array, plot_grid, plot_rectangular_mapper and    *)
(* plot_voronoi_mapper draw the base plot first with its output bypassed,  *)
(* then each overlay exactly when its argument is not None, then output    *)
(* the figure exactly once, and close it after that exactly when the       *)
(* plotter is not a SubPlotter, whose figure stays open; subplot_fit_      *)
(* galaxy sets up panels 1 to 4 in order, then outputs, then closes.       *)
(***************************************************************************)
C30_PlotOrder ==
    /\ last.op \in {"plot_array", "plot_grid", "plot_rectangular_mapper",
                    "plot_voronoi_mapper"} =>
        LET events == last.plotter.events
            base == Positions(events, BasePlotOf(last.op))
            output == Positions(events, "output.to_figure")
            close == Positions(events, "figure.close")
            overlay(k) == Positions(events, OverlayCalls[k].call)
        IN  /\ Cardinality(base) = 1
            /\ \A i \in base : events[i].bypass_output
            /\ \A k \in 1..Len(OverlayCalls) :
                  /\ Cardinality(overlay(k))
                        = IF last.kwargs[OverlayCalls[k].arg] # None THEN 1 ELSE 0
                  /\ Precede(base, overlay(k))
                  /\ Precede(overlay(k), output)
                  /\ \A j \in 1..Len(OverlayCalls) :
                        k < j => Precede(overlay(k), overlay(j))
            /\ Cardinality(output) = 1
            /\ Precede(base, output)
            /\ Precede(output, close)
            /\ Cardinality(close) = IF IsSubPlotter(last.plotter) THEN 0 ELSE 1
            /\ last.plotter.figure_open = IsSubPlotter(last.plotter)
    /\ (last.op = "subplot_fit_galaxy" /\ last.raised = "None") =>
        LET events == last.plotter.events
            panel(n) == {i \in Positions(events, "setup_subplot") :
                            events[i].subplot_index = n}
            output == Positions(events, "output.subplot_to_figure")
            close == Positions(events, "figure.close")
        IN  /\ \A n \in 1..4 : Cardinality(panel(n)) = 1
            /\ Cardinality(Positions(events, "setup_subplot")) = 4
            /\ \A n \in 1..3 : Precede(panel(n), panel(n + 1))
            /\ Cardinality(output) = 1
            /\ Precede(panel(4), output)
            /\ close = {Len(events)}
            /\ Precede(output, close)
            /\ ~last.plotter.figure_open
====
